---- MODULE Spec2Model ----
(***************************************************************************)
(* AlgoViz: the sandbox executor (backend/sandbox/executor.ts) and the     *)
(* trace runtime it injects into the instrumented program.                 *)
(*                                                                         *)
(* One behaviour is one call executeCode(userCode, language).  The source  *)
(* text is represented by what the pipeline makes of it: whether the       *)
(* instrumenter's parser accepts it and, if so, the sequence of            *)
(* instructions of the instrumented program (the tracer calls the          *)
(* instrumenter inserts around the statements, the loop guards, the        *)
(* function prologue and the finally block, and the program's own throws). *)
(***************************************************************************)
EXTENDS Integers, Sequences, FiniteSets, TLC

VARIABLES
    language,     \* executeCode's language argument
    userCode,     \* executeCode's userCode argument: [parses, translates, code, text]
    pc,           \* position inside executeCode
    timeline,     \* const timeline: Timeline = []
    currentLogs,  \* const currentLogs: ConsoleLog[] = []
    lastLine,     \* let lastLine = 0
    stepCount,    \* let stepCount = 0
    stack,        \* tracer.stack
    currentLine,  \* tracer.currentLine
    inputIndex,   \* tracer._inputIndex
    instrumented, \* const instrumented = instrumentCode(codeToInstrument)
    ip,           \* the evaluated program's next instruction
    iter,         \* the evaluated program's loop counter
    tryDepth,     \* try blocks of instrumented function bodies now open
    thrown,       \* the value being thrown (e of the catch clause)
    result,       \* the promise executeCode returned
    evaluated,    \* new Function(wrappedCode).call(null, tracer) was started
    lineCalls,    \* history: the line arguments of the latest setLine / step calls
    env,          \* the evaluated program's variables
    inputValue,   \* what the latest __tracer.input() call returned: <<val>>
    earlier,      \* history: the executeCode calls made before this one
    callers,      \* history: tracer.stack as it was before each call now open
    walk,         \* instrumentCode: the state of one call
    scan,         \* transpileCppToJs: the state of one call
    py,           \* transpilePythonToJs: the state of one call
    app           \* the state of the App component

vars == <<language, userCode, pc, timeline, currentLogs, lastLine, stepCount,
          stack, currentLine, inputIndex, instrumented, ip, iter, tryDepth,
          thrown, result, evaluated, lineCalls, env, inputValue, earlier,
          callers, walk, scan, py, app>>

\* the state of the text rewriters, which the executor only calls, and of the
\* component that calls the executor
toolVars == <<walk, scan, py, app>>

----------------------------------------------------------------------------
(* Bounds and program constants *)

MAX_STEPS == 2000

\* longest sequence of top-level statements of a short program
MaxStmts == 2
\* most iterations of a counted loop of a short program
MaxIter == 1
\* most traced statements in the body of an endless loop
MaxBody == 3
\* snapshots still to record before the budget is used up, where a long run
\* is taken up
Slack == 4
\* most input() calls of one run
MaxInputs == 11
\* most executeCode calls that follow one another
MaxCalls == 2
\* most calls of instrumentCode on its own output
MaxPasses == 2
\* the longest function body of the C++ texts, in characters
MaxText == 3
\* most lines of the Python texts
MaxLines == 3
\* the deepest indentation of their lines, in blanks
MaxIndent == 2
\* the iterations of the counted loop whose re-instrumented text meets the budget
LoopRuns == 500

----------------------------------------------------------------------------
(* Values of the evaluated program *)

Num(n) == [t |-> "number", n |-> n, s |-> ""]
Str(s) == [t |-> "string", n |-> 0, s |-> s]
Undefined == [t |-> "undefined", n |-> 0, s |-> ""]
NaN == [t |-> "NaN", n |-> 0, s |-> ""]
Null == [t |-> "null", n |-> 0, s |-> ""]
Fn == [t |-> "function", n |-> 0, s |-> ""]
\* a name the snapshot object does not hold
Absent == [t |-> "absent", n |-> 0, s |-> ""]

\* true and false
Bool(b) == [t |-> "boolean", n |-> IF b THEN 1 ELSE 0, s |-> ""]

\* Expressions of the evaluated program; a value stands for its literal.
\* name
Var(name) == [t |-> "var", n |-> 0, s |-> name]
\* name + k
Add(name, k) == [t |-> "add", n |-> k, s |-> name]
\* name * k
Mul(name, k) == [t |-> "mul", n |-> k, s |-> name]
\* name < k
Less(name, k) == [t |-> "less", n |-> k, s |-> name]

\* the names the evaluated programs use; "return" holds the value a call returned
Names == {"x", "y", "n", "i", "f", "c", "return"}
EmptyEnv == [k \in Names |-> Absent]

\* The value of expression e.  A name is read as the snapshot object reads
\* it: (typeof name !== 'undefined' ? name : undefined).
Eval(e, vs) ==
    CASE e.t = "var" -> IF vs[e.s] = Absent THEN Undefined ELSE vs[e.s]
      [] e.t = "add" -> Num(vs[e.s].n + e.n)
      [] e.t = "mul" -> Num(vs[e.s].n * e.n)
      [] e.t = "less" -> Bool(vs[e.s].n < e.n)
      [] OTHER -> e

\* the object literal handed to step, and the argument list of a print call
EvalAll(es, vs) == [k \in DOMAIN es |-> Eval(es[k], vs)]

VarNames == {"x"}
EmptyObject == [k \in VarNames |-> Absent]
Obj(v) == [k \in VarNames |-> v]

\* The replacer of JSON.stringify in tracer.step, followed by JSON.parse.
SafeValue(v) ==
    CASE v.t = "function" -> Str("[Function]")
      [] v.t = "undefined" -> Str("undefined")
      [] v.t = "NaN" -> Str("NaN")
      [] OTHER -> v

SafeVars(v) == [k \in DOMAIN v |-> SafeValue(v[k])]

\* One argument of tracer.log: typeof a === 'object' ? JSON.stringify(a) : String(a)
ArgText(a) ==
    CASE a.t = "number" -> ToString(a.n)
      [] a.t = "string" -> a.s
      [] a.t = "undefined" -> "undefined"
      [] a.t = "NaN" -> "NaN"
      [] a.t = "null" -> "null"
      [] a.t = "boolean" -> IF a.n = 1 THEN "true" ELSE "false"
      [] OTHER -> "function"

RECURSIVE JoinArgs(_)
JoinArgs(args) ==
    IF Len(args) = 0 THEN ""
    ELSE IF Len(args) = 1 THEN ArgText(args[1])
    ELSE ArgText(args[1]) \o " " \o JoinArgs(Tail(args))

----------------------------------------------------------------------------
(* Thrown values and the promise *)

NoThrow == [kind |-> "none", message |-> ""]
ErrorObject(m) == [kind |-> "Error", message |-> m]
ThrownString(m) == [kind |-> "string", message |-> m]
ThrownNull == [kind |-> "null", message |-> ""]
ThrownUndefined == [kind |-> "undefined", message |-> ""]

LimitMessage == "Execution limit exceeded (infinite loop detection)."

Pending == [state |-> "pending", value |-> <<>>, reason |-> ""]
Resolved(tl) == [state |-> "resolved", value |-> tl, reason |-> ""]
Rejected(why) == [state |-> "rejected", value |-> <<>>, reason |-> why]

----------------------------------------------------------------------------
(* The instrumented program: instructions                                  *)
(* n: a line, or a relative jump; m: an iteration limit; s: a name;        *)
(* args: the arguments of a print call; obj: the snapshot object handed to *)
(* step; e: the value thrown.                                              *)

Instr(op, n, m, s, args, obj, e) ==
    [op |-> op, n |-> n, m |-> m, s |-> s, args |-> args, obj |-> obj, e |-> e]

\* __tracer.setLine(line);
ISetLine(line) == Instr("setLine", line, 0, "", <<>>, EmptyObject, NoThrow)
\* __tracer.step(line, { x: (typeof x !== 'undefined' ? x : undefined) });
IStep(line, obj) == Instr("step", line, 0, "", <<>>, obj, NoThrow)
\* __tracer.enter("name"); try {
IEnter(name) == Instr("enter", 0, 0, name, <<>>, EmptyObject, NoThrow)
\* } finally { __tracer.exit(); }
IFinallyExit == Instr("exit", 1, 0, "", <<>>, EmptyObject, NoThrow)
\* __tracer.exit() written by the program itself (__tracer is in its scope)
IDirectExit == Instr("exit", 0, 0, "", <<>>, EmptyObject, NoThrow)
\* console.log(...), console.error(...), console.warn(...)
IConsole(method, args) == Instr("console", 0, 0, method, args, EmptyObject, NoThrow)
\* __tracer.input()
IInput == Instr("input", 0, 0, "", <<>>, EmptyObject, NoThrow)
\* throw e, or an expression whose evaluation throws e
IThrow(e) == Instr("throw", 0, 0, "", <<>>, EmptyObject, e)
\* if (__tracer.checkLoop()) break;
ICheckLoop(off) == Instr("checkLoop", off, 0, "", <<>>, EmptyObject, NoThrow)
\* the back edge of a loop
IJump(off) == Instr("jump", off, 0, "", <<>>, EmptyObject, NoThrow)
\* let i = 0 of a for header (never instrumented)
ILoopInit == Instr("loopInit", 0, 0, "", <<>>, EmptyObject, NoThrow)
\* i < limit of a for header, with i++ folded in
ILoopTest(limit, off) == Instr("loopTest", off, limit, "", <<>>, EmptyObject, NoThrow)
\* name = e   (also: var name = e, let name = e, the binding of a parameter)
IAssign(name, e) == Instr("assign", 0, 0, name, <<e>>, EmptyObject, NoThrow)
\* the test of an if or of a loop: go on if cond holds, else skip off instructions
IBranch(cond, off) == Instr("branch", off, 0, "", <<cond>>, EmptyObject, NoThrow)

----------------------------------------------------------------------------
(* The instrumented program: what walk makes of each statement shape *)

\* x = v;   ->  __tracer.setLine(L); x = v; __tracer.step(L, {...});
Plain(L, v) == <<ISetLine(L), IStep(L, Obj(v))>>

\* console.m(a);
PrintStmt(L, method, args) ==
    <<ISetLine(L), IConsole(method, args), IStep(L, Obj(Num(L)))>>

\* x = __tracer.input();   (what the C++ front-end makes of cin >> x)
InputStmt(L) == <<ISetLine(L), IInput, IStep(L, Obj(Num(L)))>>

\* function f(n) { return n * 2; } on line 1, and  x = f(5);  on line L:
\* the return becomes  __tracer.setLine(1); return (__tracer.step(1, {...}), n * 2)
CallStmt(L) ==
    <<ISetLine(L), IEnter("f"), ISetLine(1), IStep(1, Obj(Fn)),
      IFinallyExit, IStep(L, Obj(Num(10)))>>

\* function f() { throw e; } on line 1, and  f();  on line L
CallThrowsStmt(L, e) == <<ISetLine(L), IEnter("f"), IThrow(e), IFinallyExit>>

\* __tracer.exit();
DirectExitStmt(L) == <<ISetLine(L), IDirectExit, IStep(L, Obj(Undefined))>>

\* throw e;   (a ThrowStatement gets no patch)
ThrowStmt(e) == <<IThrow(e)>>

\* undefinedFunction();   (an ExpressionStatement that throws while evaluated)
ExprThrowsStmt(L, e) == <<ISetLine(L), IThrow(e)>>

\* while (true) { if (__tracer.checkLoop()) break; body }
WhileTrue(body) ==
    <<ICheckLoop(Len(body) + 2)>> \o body \o <<IJump(0 - (Len(body) + 1))>>

\* for (let i = 0; i < limit; i++) { if (__tracer.checkLoop()) break; body }
ForLoop(limit, body) ==
    <<ILoopInit, ILoopTest(limit, Len(body) + 3), ICheckLoop(Len(body) + 2)>>
    \o body \o <<IJump(0 - (Len(body) + 2))>>

\* generateTraceCall's object literal for the names in scope:
\* { v: (typeof v !== 'undefined' ? v : undefined), ... }
TraceObject(names) == [k \in names |-> Var(k)]

\* var c = v; if (c < 1) { var x = 1; }   on line L
IfStmt(L, v) ==
    <<ISetLine(L), IAssign("c", Num(v)), IStep(L, TraceObject({"c"})),
      IBranch(Less("c", 1), 4),
      ISetLine(L), IAssign("x", Num(1)), IStep(L, TraceObject({"c", "x"}))>>

\* let x = 1; x = x + 1; console.log(x);
ScenarioA ==
    <<ISetLine(1), IAssign("x", Num(1)), IStep(1, TraceObject({"x"})),
      ISetLine(1), IAssign("x", Add("x", 1)), IStep(1, TraceObject({"x"})),
      ISetLine(1), IConsole("log", <<Var("x")>>), IStep(1, TraceObject({"x"}))>>

\* function f(n){ return n*2; } let y = f(5);
\* the declaration of f is hoisted; the call binds n, runs the wrapped body
\*   __tracer.enter("f"); try { __tracer.setLine(1);
\*   return (__tracer.step(1, {f, n}), n*2); } finally { __tracer.exit(); }
\* and its value initialises y
ScenarioB ==
    <<IAssign("f", Fn),
      ISetLine(1), IAssign("n", Num(5)), IEnter("f"),
      ISetLine(1), IStep(1, TraceObject({"f", "n"})), IAssign("return", Mul("n", 2)),
      IFinallyExit,
      IAssign("y", Var("return")), IStep(1, TraceObject({"f", "y"}))>>

ThrownValues ==
    {ErrorObject("x is not defined"), ThrownString("boom"), ThrownNull,
     ThrownUndefined}

\* the statements a short program is made of, for a statement on line L
Stmts(L) ==
    {Plain(L, Num(L)), Plain(L, NaN), CallStmt(L), DirectExitStmt(L), InputStmt(L),
     WhileTrue(<<>>)}
    \cup {PrintStmt(L, m, <<Str("v"), Num(L)>>) : m \in {"log", "error", "warn"}}
    \cup {ThrowStmt(e) : e \in ThrownValues}
    \cup {ExprThrowsStmt(L, ErrorObject("f is not defined")),
          CallThrowsStmt(L, ErrorObject("bad"))}
    \cup {ForLoop(k, Plain(L, Num(k))) : k \in 1..MaxIter}
    \cup {IfStmt(L, v) : v \in {0, 1}}

\* all programs of at most n statements, the first one on line L
RECURSIVE StmtSeqs(_, _)
StmtSeqs(n, L) ==
    IF n = 0 THEN {<<>>}
    ELSE {<<>>} \cup {s \o rest : s \in Stmts(L), rest \in StmtSeqs(n - 1, L + 1)}

\* for (let i = 0; i < k; i++) { x = __tracer.input(); }
InputLoop(k) == ForLoop(k, InputStmt(2))

\* a statement on line L with the calls one instrumentation puts around it:
\* __tracer.setLine(L); statement; __tracer.step(L, { names })
Once(L, ins, names) == <<ISetLine(L), ins, IStep(L, TraceObject(names))>>

\* the text of Once(L, ins, names) instrumented again: the setLine call, the
\* statement and the step call are expression statements, and each gets a
\* setLine call before it and a step call after it; before: the names in
\* scope ahead of the statement
Again(L, ins, before, names) ==
    Once(L, ISetLine(L), before) \o Once(L, ins, names)
    \o Once(L, IStep(L, TraceObject(names)), names)

\* the loop of ForLoop(limit, ...) instrumented again: a second guard ahead of
\* the first, which is an if statement and gets no calls of its own
ForLoopAgain(limit, body) ==
    <<ILoopInit, ILoopTest(limit, Len(body) + 4), ICheckLoop(Len(body) + 3),
      ICheckLoop(Len(body) + 2)>>
    \o body \o <<IJump(0 - (Len(body) + 3))>>

\* let x = 0;
\* for (let i = 0; i < n; i++) { x = x + 1; }
\* console.log(x);
\* x = 0;
Counting(n) ==
    Once(1, IAssign("x", Num(0)), {"x"})
    \o ForLoop(n, Once(2, IAssign("x", Add("x", 1)), {"x"}))
    \o Once(3, IConsole("log", <<Var("x")>>), {"x"})
    \o Once(4, IAssign("x", Num(0)), {"x"})

\* instrumentCode(instrumentCode(text)) for the text of Counting(n)
CountingAgain(n) ==
    Again(1, IAssign("x", Num(0)), {}, {"x"})
    \o ForLoopAgain(n, Again(2, IAssign("x", Add("x", 1)), {"x"}, {"x"}))
    \o Again(3, IConsole("log", <<Var("x")>>), {"x"}, {"x"})
    \o Again(4, IAssign("x", Num(0)), {"x"}, {"x"})

Programs == StmtSeqs(MaxStmts, 2) \cup {InputLoop(MaxInputs), ScenarioA, ScenarioB}

\* k traced statements on lines 2 .. k+1
RECURSIVE Body(_)
Body(k) == IF k = 0 THEN <<>> ELSE Body(k - 1) \o Plain(k + 1, Num(k))

\* programs that run into the step budget: an endless loop of k traced
\* statements with or without a statement after it, and counted loops of
\* about MAX_STEPS iterations; head is the loop's first instruction, body
\* its traced statements, j the iterations made where InitBudget takes the
\* run up
BudgetRuns ==
    {[p |-> WhileTrue(Body(k)) \o post, head |-> 1, body |-> Body(k),
      j |-> (MAX_STEPS - Slack) \div k] :
         k \in 1..MaxBody, post \in {<<>>, Plain(9, Num(9))}}
    \cup {[p |-> ForLoop(n, Plain(2, Num(2))), head |-> 2, body |-> Plain(2, Num(2)),
           j |-> MAX_STEPS - Slack] : n \in {MAX_STEPS, MAX_STEPS + 1}}

Languages == {"javascript", "c++", "cpp", "python", "py"}

\* translates: the front-end of the language, if the language has one,
\* returns on this text
Source(p) == [parses |-> TRUE, translates |-> TRUE, code |-> p, text |-> <<>>]
\* a text acorn rejects
Unparsable == [parses |-> FALSE, translates |-> TRUE, code |-> <<>>, text |-> <<>>]
\* a text on which the front-end throws
Untranslatable == [parses |-> FALSE, translates |-> FALSE, code |-> <<>>, text |-> <<>>]

----------------------------------------------------------------------------
(* The trace runtime: what each method computes *)

InputValues == <<5, 10, 3, 7, 1, 42, 100, 0, -1, 99>>

\* (mutant) a cursor that stays on the last value once it has been reached
InputAt_NoWrap(index) ==
    InputValues[IF index < Len(InputValues) THEN index + 1 ELSE Len(InputValues)]

\* tracer._inputValues[tracer._inputIndex % tracer._inputValues.length]
InputAt(index) == InputValues[(index % Len(InputValues)) + 1]

\* tracer.step: stepCount++ > MAX_STEPS
LimitExceeded(count) == count > MAX_STEPS

\* (mutant) a checkLoop that is true as soon as the budget is used up
CheckLoop_AtBudget(count) == count >= MAX_STEPS

\* tracer.checkLoop: if (stepCount > MAX_STEPS) return true; return false;
CheckLoop(count) == count > MAX_STEPS

\* (mutant) enter that writes the name over the frame of the caller
EnterStack_Overwrites(st, name) == [st EXCEPT ![Len(st)] = name]

\* tracer.enter: tracer.stack.push(name)
EnterStack(st, name) == Append(st, name)

\* (mutant) exit that leaves the frame on the stack
ExitStack_NoPop(st) == st

\* (mutant) exit that pops whatever the stack holds
ExitStack_AlwaysPop(st) == SubSeq(st, 1, Len(st) - 1)

\* tracer.exit: if (tracer.stack.length > 1) tracer.stack.pop()
ExitStack(st) == IF Len(st) > 1 THEN SubSeq(st, 1, Len(st) - 1) ELSE st

\* the object tracer.step pushes
StepEntry(line, obj, st, logs) ==
    [line |-> line, variables |-> SafeVars(obj), callStack |-> st,
     consoleOutput |-> logs, isError |-> FALSE, errorMessage |-> <<>>]

\* (mutant) a step that holds tracer.stack itself instead of a copy of it
StepAfter_SharedStack(step, st, logs) == [step EXCEPT !.callStack = st]

\* A step that is in the timeline, once the tracer has changed its stack to st
\* and the log to logs (both arrays are changed in place, by push and pop):
\* step pushed [...tracer.stack], [...currentLogs] and a parsed clone of the
\* variables, so the step shares nothing with the tracer and is as it was.
StepAfter(step, st, logs) == step

\* the timeline after such a change
Settled(tl, st, logs) == [i \in 1..Len(tl) |-> StepAfter(tl[i], st, logs)]

\* (mutant) a step that leaves lastLine to setLine alone
LineAfterStep_SetLineOnly(last, line) == last

\* lastLine after a step that recorded a snapshot
LineAfterStep(last, line) == line

\* (mutant) a log message that ends in a blank, as the message of input does
LogEntry_TrailingBlank(method, args) ==
    [type |-> "log", message |-> JoinArgs(args) \o " "]

\* tracer.log: one ConsoleLog per call, whichever console method was called
LogEntry(method, args) == [type |-> "log", message |-> JoinArgs(args)]

\* tracer.input's log entry  (the arrow is U+2192 in the source)
InputEntry(val) == [type |-> "log", message |-> "[input] -> " \o ToString(val) \o " "]

\* e.message, as a property read: <<m>> a string, <<>> undefined
MessageOf(e) == IF e.kind = "Error" THEN <<e.message>> ELSE <<>>

\* ${e.message} inside a template literal
MessageText(e) == IF e.kind = "Error" THEN e.message ELSE "undefined"

\* reading a property of null or undefined throws a TypeError
HasProperties(e) == e.kind \notin {"null", "undefined"}

\* (mutant) an error step without the seed frame when no step was recorded
ErrorStep_NoSeedFrame(tl, logs, line, e) ==
    [line |-> line,
     variables |-> IF Len(tl) > 0 THEN tl[Len(tl)].variables ELSE EmptyObject,
     callStack |-> IF Len(tl) > 0 THEN tl[Len(tl)].callStack ELSE <<>>,
     consoleOutput |->
         Append(logs, [type |-> "error",
                       message |-> "Runtime Error: " \o MessageText(e) \o " "]),
     isError |-> TRUE,
     errorMessage |-> MessageOf(e)]

\* (mutant) an error step whose console output is the error entry alone
ErrorStep_DropsLogs(tl, logs, line, e) ==
    [line |-> line,
     variables |-> IF Len(tl) > 0 THEN tl[Len(tl)].variables ELSE EmptyObject,
     callStack |-> IF Len(tl) > 0 THEN tl[Len(tl)].callStack ELSE <<"main">>,
     consoleOutput |->
         <<[type |-> "error", message |-> "Runtime Error: " \o MessageText(e) \o " "]>>,
     isError |-> TRUE,
     errorMessage |-> MessageOf(e)]

\* the step the catch clause of executeCode appends
ErrorStep(tl, logs, line, e) ==
    [line |-> line,
     variables |-> IF Len(tl) > 0 THEN tl[Len(tl)].variables ELSE EmptyObject,
     callStack |-> IF Len(tl) > 0 THEN tl[Len(tl)].callStack ELSE <<"main">>,
     consoleOutput |->
         Append(logs, [type |-> "error",
                       message |-> "Runtime Error: " \o MessageText(e) \o " "]),
     isError |-> TRUE,
     errorMessage |-> MessageOf(e)]

----------------------------------------------------------------------------
(* instrumentCode: texts and the parser                                    *)
(*                                                                         *)
(* A text is a sequence of tokens, and offsets count tokens: offset k lies *)
(* after the k-th token.  An expression, a declaration and the header of   *)
(* an if or while are one token each; braces, semicolons, blanks and line  *)
(* breaks are tokens of their own, so that body.start + 1 lies after the   *)
(* opening brace and body.end - 1 before the closing one.                  *)

\* line, names: the arguments of a tracer call; names also holds the names a
\* declaration declares and the parameters of a function; by: 0 for a token
\* of the source, p for a token the p-th instrumentation inserted (history)
Token(kind, text, line, names) ==
    [kind |-> kind, text |-> text, line |-> line, names |-> names, by |-> 0]

Sp == Token(" ", " ", 0, {})
Nl == Token("nl", "\n", 0, {})
LBrace == Token("{", "{", 0, {})
RBrace == Token("}", "}", 0, {})
Semi == Token(";", ";", 0, {})
LParen == Token("(", "(", 0, {})
RParen == Token(")", ")", 0, {})
Comma == Token(",", ",", 0, {})
Else == Token("else", "else", 0, {})
Return == Token("return", "return", 0, {})
Break == Token("break", "break", 0, {})
Try == Token("try", "try", 0, {})
Finally == Token("finally", "finally", 0, {})
\* for (   and the   )   that closes the header
ForOpen == Token("for(", "for (", 0, {})
ForClose == Token("for)", ")", 0, {})
Expr(text) == Token("expr", text, 0, {})
\* let / var / const declaration of the names
Decl(text, names) == Token("decl", text, 0, names)
\* if (cond)
IfHead(cond) == Token("if", cond, 0, {})
\* while (cond)
WhileHead(cond) == Token("while", cond, 0, {})
\* do
Do == Token("do", "do", 0, {})
\* for (const name in object)
ForInHead(name, object) == Token("forin", object, 0, {name})
\* function name(params)
FuncHead(name, params) == Token("function", name, 0, params)

KindAt(toks, i) == IF i \in 1..Len(toks) THEN toks[i].kind ELSE "eof"

\* the first token at or after i that is no blank (no blank or line break)
RECURSIVE SkipBlanks(_, _)
SkipBlanks(toks, i) ==
    IF KindAt(toks, i) = " " THEN SkipBlanks(toks, i + 1) ELSE i

RECURSIVE SkipSpace(_, _)
SkipSpace(toks, i) ==
    IF KindAt(toks, i) \in {" ", "nl"} THEN SkipSpace(toks, i + 1) ELSE i

\* acorn.getLineInfo(code, offset).line
LineAt(toks, offset) ==
    1 + Cardinality({i \in 1..offset : toks[i].kind = "nl"})

\* the last token of the expression that starts with token i
RECURSIVE ExprEnd(_, _)
ExprEnd(toks, i) ==
    LET j == SkipBlanks(toks, i + 1)
    IN  IF KindAt(toks, j) \in {"expr", "(", ",", ")"} THEN ExprEnd(toks, j) ELSE i

\* An expression node does not include the parentheses around it.
RECURSIVE Unparenthesized(_, _, _)
Unparenthesized(toks, a, b) ==
    IF a < b /\ toks[a].kind = "(" /\ toks[b].kind = ")"
    THEN Unparenthesized(toks, SkipBlanks(toks, a + 1), b - 1)
    ELSE <<a, b>>

\* a node of the syntax tree; kids: <<key, node>> pairs in the order of
\* Object.keys(node)
Node(type, from, to, toks, name, names, kids) ==
    [type |-> type, start |-> from - 1, end |-> to, line |-> LineAt(toks, from - 1),
     name |-> name, names |-> names, kids |-> kids]

\* the result of parsing one statement: next is the token after it
Parsed(node, next) == [ok |-> TRUE, node |-> node, next |-> next]
SyntaxError == [ok |-> FALSE, node |-> <<>>, next |-> 0]

\* the end of a statement that may close with a semicolon
WithSemi(toks, last) ==
    LET j == SkipBlanks(toks, last + 1)
    IN  IF KindAt(toks, j) = ";" THEN j ELSE last

\* the first token of kind k at or after i, or 0
RECURSIVE FindKind(_, _, _)
FindKind(toks, i, k) ==
    IF i > Len(toks) THEN 0
    ELSE IF toks[i].kind = k THEN i
    ELSE FindKind(toks, i + 1, k)

RECURSIVE ParseStatement(_, _)
RECURSIVE ParseList(_, _, _, _)

\* the statements from token i up to a token of kind closer (not included)
ParseList(toks, i, closer, kids) ==
    LET j == SkipSpace(toks, i)
    IN  IF KindAt(toks, j) = closer THEN [ok |-> TRUE, kids |-> kids, next |-> j]
        ELSE LET s == ParseStatement(toks, j)
             IN  IF s.ok
                 THEN ParseList(toks, s.next, closer, Append(kids, <<"body[]", s.node>>))
                 ELSE [ok |-> FALSE, kids |-> <<>>, next |-> 0]

\* the statement that starts with token i
ParseStatement(toks, i) ==
    LET kind == KindAt(toks, i)
    IN  CASE kind = "{" ->
                LET l == ParseList(toks, i + 1, "}", <<>>)
                IN  IF l.ok
                    THEN Parsed(Node("BlockStatement", i, l.next, toks, "", {}, l.kids),
                                l.next + 1)
                    ELSE SyntaxError
          [] kind = "if" ->
                LET c == ParseStatement(toks, SkipSpace(toks, i + 1))
                    j == SkipSpace(toks, c.next)
                    a == ParseStatement(toks, SkipSpace(toks, j + 1))
                IN  IF ~c.ok THEN SyntaxError
                    ELSE IF KindAt(toks, j) # "else"
                    THEN Parsed(Node("IfStatement", i, c.node.end, toks, "", {},
                                     <<<<"consequent", c.node>>>>), c.next)
                    ELSE IF ~a.ok THEN SyntaxError
                    ELSE Parsed(Node("IfStatement", i, a.node.end, toks, "", {},
                                     <<<<"consequent", c.node>>, <<"alternate", a.node>>>>),
                                a.next)
          [] kind = "while" ->
                LET b == ParseStatement(toks, SkipSpace(toks, i + 1))
                IN  IF b.ok
                    THEN Parsed(Node("WhileStatement", i, b.node.end, toks, "", {},
                                     <<<<"body", b.node>>>>), b.next)
                    ELSE SyntaxError
          [] kind = "do" ->
                LET b == ParseStatement(toks, SkipSpace(toks, i + 1))
                    w == SkipSpace(toks, b.next)
                IN  IF b.ok /\ KindAt(toks, w) = "while"
                    THEN Parsed(Node("DoWhileStatement", i, WithSemi(toks, w), toks, "", {},
                                     <<<<"body", b.node>>>>), WithSemi(toks, w) + 1)
                    ELSE SyntaxError
          [] kind = "forin" ->
                LET b == ParseStatement(toks, SkipSpace(toks, i + 1))
                IN  IF b.ok
                    THEN Parsed(Node("ForInStatement", i, b.node.end, toks, "", {},
                                     <<<<"left", Node("VariableDeclaration", i, i, toks, "",
                                                      toks[i].names, <<>>)>>,
                                       <<"body", b.node>>>>), b.next)
                    ELSE SyntaxError
          [] kind = "for(" ->
                LET d == SkipBlanks(toks, i + 1)
                    close == FindKind(toks, i, "for)")
                    b == ParseStatement(toks, SkipSpace(toks, close + 1))
                    init == IF KindAt(toks, d) = "decl"
                            THEN <<<<"init", Node("VariableDeclaration", d, d, toks, "",
                                                  toks[d].names, <<>>)>>>>
                            ELSE <<>>
                IN  IF close = 0 \/ ~b.ok THEN SyntaxError
                    ELSE Parsed(Node("ForStatement", i, b.node.end, toks, "", {},
                                     init \o <<<<"body", b.node>>>>), b.next)
          [] kind = "function" ->
                LET j == SkipSpace(toks, i + 1)
                    b == ParseStatement(toks, j)
                IN  IF KindAt(toks, j) = "{" /\ b.ok
                    THEN Parsed(Node("FunctionDeclaration", i, b.node.end, toks,
                                     toks[i].text, toks[i].names, <<<<"body", b.node>>>>),
                                b.next)
                    ELSE SyntaxError
          [] kind = "return" ->
                LET j == SkipBlanks(toks, i + 1)
                    last == ExprEnd(toks, j)
                    arg == Unparenthesized(toks, j, last)
                IN  IF KindAt(toks, j) \in {"expr", "("}
                    THEN Parsed(Node("ReturnStatement", i, WithSemi(toks, last), toks, "", {},
                                     <<<<"argument",
                                         Node("Expression", arg[1], arg[2], toks, "", {},
                                              <<>>)>>>>),
                                WithSemi(toks, last) + 1)
                    ELSE Parsed(Node("ReturnStatement", i, WithSemi(toks, i), toks, "", {},
                                     <<>>),
                                WithSemi(toks, i) + 1)
          [] kind \in {"expr", "("} ->
                LET last == WithSemi(toks, ExprEnd(toks, i))
                IN  Parsed(Node("ExpressionStatement", i, last, toks, "", {}, <<>>),
                           last + 1)
          [] kind = "decl" ->
                LET last == WithSemi(toks, i)
                IN  Parsed(Node("VariableDeclaration", i, last, toks, "", toks[i].names,
                                <<>>), last + 1)
          [] kind = "break" ->
                LET last == WithSemi(toks, i)
                IN  Parsed(Node("BreakStatement", i, last, toks, "", {}, <<>>), last + 1)
          [] kind = ";" ->
                Parsed(Node("EmptyStatement", i, i, toks, "", {}, <<>>), i + 1)
          [] kind = "try" ->
                LET j == SkipSpace(toks, i + 1)
                    b == ParseStatement(toks, j)
                    f == SkipSpace(toks, b.next)
                    g == SkipSpace(toks, f + 1)
                    h == ParseStatement(toks, g)
                IN  IF KindAt(toks, j) = "{" /\ b.ok /\ KindAt(toks, f) = "finally"
                       /\ KindAt(toks, g) = "{" /\ h.ok
                    THEN Parsed(Node("TryStatement", i, h.node.end, toks, "", {},
                                     <<<<"block", b.node>>, <<"finalizer", h.node>>>>),
                                h.next)
                    ELSE SyntaxError
          [] OTHER -> SyntaxError

\* acorn raises a SyntaxError for a break outside a loop and for a return
\* outside a function
RECURSIVE JumpsAllowed(_, _, _)
JumpsAllowed(node, inLoop, inFunction) ==
    /\ node.type = "BreakStatement" => inLoop
    /\ node.type = "ReturnStatement" => inFunction
    /\ \A k \in DOMAIN node.kids :
           JumpsAllowed(node.kids[k][2],
                        IF node.type \in {"ForStatement", "WhileStatement", "DoWhileStatement",
                                          "ForInStatement"} THEN TRUE
                        ELSE IF node.type = "FunctionDeclaration" THEN FALSE
                        ELSE inLoop,
                        inFunction \/ node.type = "FunctionDeclaration")

\* acorn.parse(code, ...): the Program node, or a SyntaxError
ParseProgram(toks) ==
    LET l == ParseList(toks, 1, "eof", <<>>)
        program == Node("Program", 1, Len(toks), toks, "", {}, l.kids)
    IN  IF l.ok /\ JumpsAllowed(program, FALSE, FALSE)
        THEN Parsed(program, Len(toks) + 1)
        ELSE SyntaxError

----------------------------------------------------------------------------
(* instrumentCode: walk, the patches and their application *)

Patch(index, text) == [index |-> index, text |-> text]

\* `__tracer.setLine(${line}); `
SetLineText(line) == <<Token("expr", "__tracer.setLine", line, {}), Semi, Sp>>

\* __tracer.step(line, { v: (typeof v !== 'undefined' ? v : undefined), ... })
StepCall(line, names) == Token("expr", "__tracer.step", line, names)

\* generateTraceCall(line)
TraceText(line, names) == <<StepCall(line, names), Semi>>

\* ` if (__tracer.checkLoop()) break; `
GuardText == <<Sp, IfHead("__tracer.checkLoop()"), Sp, Break, Semi, Sp>>

\* ` __tracer.enter("${funcName}"); try { `
EnterText(name) ==
    <<Sp, Token("expr", "__tracer.enter", 0, {name}), Semi, Sp, Try, Sp, LBrace, Sp>>

\* ` } finally { __tracer.exit(); } `
ExitText ==
    <<Sp, RBrace, Sp, Finally, Sp, LBrace, Sp, Token("expr", "__tracer.exit", 0, {}),
      Semi, Sp, RBrace, Sp>>

\* getCurrentScopeVars()
ScopeVars(scopes) == UNION {scopes[i] : i \in DOMAIN scopes}

\* the node under key, or <<>>
Kid(node, key) ==
    LET at == {k \in DOMAIN node.kids : node.kids[k][1] = key}
    IN  IF at = {} THEN <<>> ELSE node.kids[CHOOSE k \in at : TRUE][2]

\* walk(ast) is called without a parent
NoNode == [type |-> "none"]

\* Loop Protection
LoopPatches(node) ==
    LET body == Kid(node, "body")
    IN  IF node.type \notin {"ForStatement", "WhileStatement", "DoWhileStatement"} THEN <<>>
        ELSE IF body.type = "BlockStatement"
        THEN <<Patch(body.start + 1, GuardText)>>
        ELSE <<Patch(body.start, <<LBrace>> \o GuardText), Patch(body.end, <<Sp, RBrace>>)>>

\* Function Entry/Exit with Try-Finally
FunctionPatches(node) ==
    LET body == Kid(node, "body")
        funcName == IF node.name # "" THEN node.name ELSE "(anonymous)"
    IN  IF node.type = "FunctionDeclaration" /\ body.type = "BlockStatement"
        THEN <<Patch(body.start + 1, EnterText(funcName)), Patch(body.end - 1, ExitText)>>
        ELSE <<>>

\* needsBlock: parent.body !== node && (parent.consequent === node ||
\* parent.alternate === node || parent.body === node)
NeedsBlock(parent, key) ==
    /\ parent.type \in {"IfStatement", "ForStatement", "WhileStatement",
                        "DoWhileStatement", "ForInStatement", "ForOfStatement"}
    /\ key # "body"
    /\ key \in {"consequent", "alternate", "body"}

\* Statement Instrumentation
StatementPatches(node, parent, key, scopes) ==
    LET trace == TraceText(node.line, ScopeVars(scopes))
    IN  IF node.type \notin {"VariableDeclaration", "ExpressionStatement"} THEN <<>>
        ELSE <<Patch(node.start, SetLineText(node.line))>>
             \o IF NeedsBlock(parent, key)
                THEN <<Patch(node.start, <<LBrace, Sp>>),
                       Patch(node.end, <<Semi, Sp>> \o trace \o <<Sp, RBrace>>)>>
                ELSE <<Patch(node.end, <<Semi, Sp>> \o trace)>>

\* Return Trace
ReturnPatches(node, scopes) ==
    LET argument == Kid(node, "argument")
        names == ScopeVars(scopes)
    IN  IF node.type # "ReturnStatement" THEN <<>>
        ELSE <<Patch(node.start, SetLineText(node.line))>>
             \o IF argument # <<>>
                THEN <<Patch(argument.start,
                             <<LParen, StepCall(node.line, names), Comma, Sp>>),
                       Patch(argument.end, <<RParen>>)>>
                ELSE <<Patch(node.start, TraceText(node.line, names)),
                       Patch(node.start, <<LBrace, Sp>>),
                       Patch(node.end, <<Sp, RBrace>>)>>

\* Skip instrumentation of loop initializers: walk returns before it has
\* collected the names the initializer declares
SkipsNode(parent, key) ==
    \/ parent.type = "ForStatement" /\ key = "init"
    \/ parent.type \in {"ForInStatement", "ForOfStatement"} /\ key = "left"

\* the scope stack once walk has entered the node: a block, the program and a
\* function open a scope, a declaration adds its names to the innermost one, a
\* function adds its name to the scope around it and its parameters to its own
Entered(node, scopes) ==
    LET isFunction == node.type = "FunctionDeclaration"
        pushed == IF node.type \in {"BlockStatement", "Program"} \/ isFunction
                  THEN Append(scopes, {})
                  ELSE scopes
        top == Len(pushed)
        declared == IF node.type = "VariableDeclaration"
                    THEN [pushed EXCEPT ![top] = @ \cup node.names]
                    ELSE pushed
        named == IF isFunction /\ node.name # "" /\ top > 1
                 THEN [declared EXCEPT ![top - 1] = @ \cup {node.name}]
                 ELSE declared
    IN  IF isFunction THEN [named EXCEPT ![top] = @ \cup node.names] ELSE named

\* the patches walk registers for the node, in the order of the source
Registered(node, parent, key, scopes) ==
    LoopPatches(node) \o FunctionPatches(node)
    \o StatementPatches(node, parent, key, scopes) \o ReturnPatches(node, scopes)

\* scopeStack.pop() at the end of walk
OpensScope(node) == node.type \in {"BlockStatement", "Program", "FunctionDeclaration"}

\* the calls of walk that are still to come: walk(node, parent) for the node
\* under parent[key], and the end of a call that opened a scope
Visit(node, parent, key) == [do |-> "visit", node |-> node, parent |-> parent, key |-> key]
Leave == [do |-> "leave", node |-> NoNode, parent |-> NoNode, key |-> ""]

\* for (const key of Object.keys(node)) ... walk(child, node)
VisitKids(node) == [i \in DOMAIN node.kids |-> Visit(node.kids[i][2], node, node.kids[i][1])]

\* patches.sort((a, b) => b.index - a.index): by descending index, patches of
\* the same index in the order of their registration (the sort is stable)
\* (mutant) a sort that puts a patch before the patches of its index that
\* were registered earlier
RECURSIVE SortPatches_TiesReversed(_)
SortPatches_TiesReversed(ps) ==
    IF ps = <<>> THEN <<>>
    ELSE LET sorted == SortPatches_TiesReversed(SubSeq(ps, 1, Len(ps) - 1))
             p == ps[Len(ps)]
             k == Cardinality({i \in DOMAIN sorted : sorted[i].index > p.index})
         IN  SubSeq(sorted, 1, k) \o <<p>> \o SubSeq(sorted, k + 1, Len(sorted))

RECURSIVE SortPatches(_)
SortPatches(ps) ==
    IF ps = <<>> THEN <<>>
    ELSE LET sorted == SortPatches(SubSeq(ps, 1, Len(ps) - 1))
             p == ps[Len(ps)]
             k == Cardinality({i \in DOMAIN sorted : sorted[i].index >= p.index})
         IN  SubSeq(sorted, 1, k) \o <<p>> \o SubSeq(sorted, k + 1, Len(sorted))

\* the tokens of a patch text, marked as inserted by the pass
Inserted(text, pass) == [i \in DOMAIN text |-> [text[i] EXCEPT !.by = pass]]

\* (mutant) a patch that overwrites the token at its offset
ApplyPatch_Overwrites(out, p, pass) ==
    SubSeq(out, 1, p.index) \o Inserted(p.text, pass) \o SubSeq(out, p.index + 2, Len(out))

\* out = out.slice(0, p.index) + p.text + out.slice(p.index)
ApplyPatch(out, p, pass) ==
    SubSeq(out, 1, p.index) \o Inserted(p.text, pass) \o SubSeq(out, p.index + 1, Len(out))

\* no call of instrumentCode / transpileCppToJs is being followed
NoWalk == [phase |-> "idle"]
NoScan == [phase |-> "idle"]
NoPy == [phase |-> "idle"]
NoApp == [page |-> "none"]

----------------------------------------------------------------------------
(* transpilePythonToJs                                                     *)
(*                                                                         *)
(* A Python text is a sequence of lines; a line is its count of leading    *)
(* blanks and the tokens after them.                                       *)

PyLine(indent, toks) == [indent |-> indent, toks |-> toks]

Colon == Token(":", ":", 0, {})
\* # and the comment after it
Comment == Token("#", "#", 0, {})
\* for name in range(args)
PyFor(name, args) ==
    [kind |-> "pyfor", text |-> name, line |-> 0, names |-> {name}, by |-> 0,
     range |-> args]
\* name = value   at the start of a line
PyAssign(name, value) ==
    [kind |-> "pyassign", text |-> name, line |-> 0, names |-> {name}, by |-> 0,
     value |-> value]

\* !trimmed || trimmed.startsWith('#')
Skipped(line) == line.toks = <<>> \/ line.toks[1].kind = "#"

\* the index of the last line of out that is neither empty nor a comment, or 0
RECURSIVE LastCode(_, _)
LastCode(out, j) ==
    IF j = 0 THEN 0
    ELSE IF ~Skipped(out[j]) THEN j
    ELSE LastCode(out, j - 1)

\* prevLine.replace(/:\s*$/, '') + ' {'   unless the line ends with a brace
Opened(line) ==
    LET n == Len(line.toks)
    IN  IF line.toks[n].kind = "{" THEN line
        ELSE [line EXCEPT !.toks = (IF line.toks[n].kind = ":" THEN SubSeq(@, 1, n - 1)
                                    ELSE @) \o <<Sp, LBrace>>]

\* while (indentStack.length > 1 && currentIndent < top) { pop; push a line
\* with the closing brace }
RECURSIVE Closed(_, _)
Closed(st, indent) ==
    IF Len(st.stack) > 1 /\ indent < st.stack[Len(st.stack)]
    THEN Closed([stack |-> SubSeq(st.stack, 1, Len(st.stack) - 1),
                 out |-> Append(st.out, PyLine(st.stack[Len(st.stack) - 1], <<RBrace>>))],
                indent)
    ELSE st

\* one round of the loop of phase 1
Phase1Line(st, line) ==
    LET last == st.stack[Len(st.stack)]
        j == LastCode(st.out, Len(st.out))
        closed == Closed(st, line.indent)
    IN  IF Skipped(line) THEN [st EXCEPT !.out = Append(@, line)]
        ELSE IF line.indent > last
        THEN [stack |-> Append(st.stack, line.indent),
              out |-> Append(IF j = 0 THEN st.out
                             ELSE [st.out EXCEPT ![j] = Opened(@)], line)]
        ELSE IF line.indent < last
        THEN [closed EXCEPT !.out = Append(@, line)]
        ELSE [st EXCEPT !.out = Append(@, line)]

RECURSIVE Phase1From(_, _, _)
Phase1From(lines, i, st) ==
    IF i > Len(lines) THEN Closed(st, 0 - 1).out
    ELSE IF Len(st.stack) = 0 THEN st.out
    ELSE Phase1From(lines, i + 1, Phase1Line(st, lines[i]))

\* PHASE 1: Indentation to Braces
Phase1(lines) == Phase1From(lines, 1, [stack |-> <<0>>, out |-> <<>>])

\* processedLines.join('\n')
RECURSIVE Blanks(_)
Blanks(n) == IF n = 0 THEN <<>> ELSE <<Sp>> \o Blanks(n - 1)

RECURSIVE Joined(_)
Joined(lines) ==
    IF lines = <<>> THEN <<>>
    ELSE Blanks(lines[1].indent) \o lines[1].toks
         \o (IF Len(lines) = 1 THEN <<>> ELSE <<Nl>> \o Joined(Tail(lines)))

\* print( -> console.log(
Printed(tok) ==
    IF tok.kind = "expr" /\ tok.text = "print(i)" THEN Expr("console.log(i)")
    ELSE IF tok.kind = "expr" /\ tok.text = "print(x)" THEN Expr("console.log(x)")
    ELSE tok

\* the arguments of range after the first, as the text between the first
\* comma and the closing parenthesis
RECURSIVE CommaList(_)
CommaList(args) ==
    IF Len(args) = 1 THEN args[1] ELSE args[1] \o ", " \o CommaList(Tail(args))

\* for (let $1 = 0; $1 < $2; $1++)  for one argument; with a comma in the
\* argument list the pattern of two arguments matches first, its last group
\* taking everything up to the closing parenthesis
ForHeader(tok) ==
    LET name == tok.text
        args == tok.range
        from == IF Len(args) = 1 THEN "0" ELSE args[1]
        to == IF Len(args) = 1 THEN args[1] ELSE CommaList(Tail(args))
    IN  <<ForOpen, Decl("let " \o name \o " = " \o from, {name}), Semi, Sp,
          Expr(name \o " < " \o to), Semi, Sp, Expr(name \o "++"), ForClose, Sp>>

\* the patterns for ... in range(...) { : applied where the brace follows
RECURSIVE Looped(_, _)
Looped(toks, i) ==
    IF i > Len(toks) THEN <<>>
    ELSE IF toks[i].kind = "pyfor" /\ KindAt(toks, SkipSpace(toks, i + 1)) = "{"
    THEN ForHeader(toks[i]) \o Looped(toks, SkipSpace(toks, i + 1))
    ELSE <<toks[i]>> \o Looped(toks, i + 1)

\* PHASE 2: Syntax Replacement
Phase2(toks) == Looped([i \in DOMAIN toks |-> Printed(toks[i])], 1)

\* PHASE 3: `${indent}var ${name} =${rest}` for a line that starts with an
\* assignment
Phase3(toks) ==
    [i \in DOMAIN toks |->
        IF toks[i].kind = "pyassign"
        THEN Decl("var " \o toks[i].text \o " = " \o toks[i].value, {toks[i].text})
        ELSE toks[i]]

transpilePythonToJs(lines) == Phase3(Phase2(Joined(Phase1(lines))))

\* for i in range(3): print(i)
PyOneLine == <<PyLine(0, <<PyFor("i", <<"3">>), Colon, Sp, Expr("print(i)")>>)>>

\* for i in range(3):
\*     print(i)
PyTwoLines ==
    <<PyLine(0, <<PyFor("i", <<"3">>), Colon>>), PyLine(4, <<Expr("print(i)")>>)>>

\* x = 5
\* print(x)
PyAssignment == <<PyLine(0, <<PyAssign("x", "5")>>), PyLine(0, <<Expr("print(x)")>>)>>

PyTexts == {PyOneLine, PyTwoLines, PyAssignment}

\* for (let i = 0; i < 3; i++) { if (__tracer.checkLoop()) break;
\*     __tracer.setLine(2); console.log(i); __tracer.step(2, {})
\* }
\* walk returns for the initializer of the loop before it collects the names
\* declared, so the object handed to step is empty
ScenarioD ==
    <<IAssign("i", Num(0)), IBranch(Less("i", 3), 7), ICheckLoop(6)>>
    \o Once(2, IConsole("log", <<Var("i")>>), {})
    \o <<IAssign("i", Add("i", 1)), IJump(0 - 6)>>

\* __tracer.setLine(1); var x = 5; __tracer.step(1, {x})
\* __tracer.setLine(2); console.log(x); __tracer.step(2, {x})
ScenarioE ==
    Once(1, IAssign("x", Num(5)), {"x"}) \o Once(2, IConsole("log", <<Var("x")>>), {"x"})

\* executeCode called with the Python text: what transpilePythonToJs makes of
\* it, whether acorn parses that, and the instrumented program
PySource(lines) ==
    [parses |-> ParseProgram(transpilePythonToJs(lines)).ok, translates |-> TRUE,
     code |-> IF lines = PyTwoLines THEN ScenarioD
              ELSE IF lines = PyAssignment THEN ScenarioE
              ELSE <<>>,
     text |-> lines]

----------------------------------------------------------------------------
(* instrumentCode: one call, and the call on its own output *)

\* let x = 1; x = x + 1; console.log(x);
TextA ==
    <<Decl("let x = 1", {"x"}), Semi, Sp, Expr("x = x + 1"), Semi, Sp,
      Expr("console.log(x)"), Semi>>

\* function f(n){ return n*2; } let y = f(5);
TextB ==
    <<FuncHead("f", {"n"}), LBrace, Sp, Return, Sp, Expr("n*2"), Semi, Sp, RBrace, Sp,
      Decl("let y = f(5)", {"y"}), Semi>>

\* function f(c) {
\*   if (c) return 1;
\*   x = 2;
\*   return 3;
\* }
TextIfReturn ==
    <<FuncHead("f", {"c"}), Sp, LBrace, Nl,
      Sp, IfHead("c"), Sp, Return, Sp, Expr("1"), Semi, Nl,
      Sp, Expr("x = 2"), Semi, Nl,
      Sp, Return, Sp, Expr("3"), Semi, Nl,
      RBrace>>

\* function g(c){if (c) return; x = 2;}
TextIfBareReturn ==
    <<FuncHead("g", {"c"}), LBrace, IfHead("c"), Sp, Return, Semi, Sp, Expr("x = 2"), Semi,
      RBrace>>

\* var x = 0;
\* if (c) x = 1; else x = 2;
TextIfElse ==
    <<Decl("var x = 0", {"x"}), Semi, Nl,
      IfHead("c"), Sp, Expr("x = 1"), Semi, Sp, Else, Sp, Expr("x = 2"), Semi>>

\* while (x < 3) { x++; }
TextWhileBlock ==
    <<WhileHead("x < 3"), Sp, LBrace, Sp, Expr("x++"), Semi, Sp, RBrace>>

\* while (x < 3) x++;
TextWhileBare == <<WhileHead("x < 3"), Sp, Expr("x++"), Semi>>

\* for (let i = 0; i < 3; i++) x++;
TextForBare ==
    <<ForOpen, Decl("let i = 0", {"i"}), Semi, Sp, Expr("i < 3"), Semi, Sp, Expr("i++"),
      ForClose, Sp, Expr("x++"), Semi>>

\* do x++; while (x < 3);
TextDoBare == <<Do, Sp, Expr("x++"), Semi, Sp, WhileHead("x < 3"), Semi>>

\* for (const k in o) x++;
TextForInBare == <<ForInHead("k", "o"), Sp, Expr("x++"), Semi>>

\* for (let i = 0; i < 3; i++) {
\*     console.log(i)
\* }
TextFor == transpilePythonToJs(PyTwoLines)

\* for i in range(3): console.log(i)
TextForeign == transpilePythonToJs(PyOneLine)

\* var x = 5
\* console.log(x)
TextVar == transpilePythonToJs(PyAssignment)

WalkSources ==
    {<<>>, TextA, TextB, TextIfReturn, TextIfBareReturn, TextIfElse, TextWhileBlock,
     TextWhileBare, TextForBare, TextDoBare, TextForInBare, TextFor, TextForeign,
     TextVar}

\* instrumentCode(src) has been called
Called(src) ==
    [phase |-> "called", pass |-> 1, source |-> src, code |-> src, ast |-> <<>>,
     todo |-> <<>>, scopes |-> <<>>, patches |-> <<>>, out |-> <<>>, k |-> 0]

\* the variables of executeCode, which waits for instrumentCode to return
callerVars ==
    <<language, userCode, pc, timeline, currentLogs, lastLine, stepCount, stack,
      currentLine, inputIndex, instrumented, ip, iter, tryDepth, thrown, result,
      evaluated, lineCalls, env, inputValue, earlier, callers>>

InitWalk ==
    /\ \E src \in WalkSources :
           /\ walk = Called(src)
           /\ userCode = [parses |-> ParseProgram(src).ok, translates |-> TRUE,
                          code |-> <<>>, text |-> <<>>]
    /\ scan = NoScan
    /\ language = "javascript"
    /\ pc = "instrument"
    /\ timeline = <<>>
    /\ currentLogs = <<>>
    /\ lastLine = 0
    /\ stepCount = 0
    /\ stack = <<"main">>
    /\ currentLine = 1
    /\ inputIndex = 0
    /\ instrumented = <<>>
    /\ ip = 1
    /\ iter = 0
    /\ tryDepth = 0
    /\ thrown = NoThrow
    /\ result = Pending
    /\ evaluated = FALSE
    /\ lineCalls = [setLine |-> 0, step |-> 0, latest |-> "none"]
    /\ env = EmptyEnv
    /\ inputValue = <<>>
    /\ earlier = <<>>
    /\ callers = <<>>
    /\ py = NoPy
    /\ app = NoApp

\* const ast = acorn.parse(code, ...)
WalkParse ==
    /\ walk.phase = "called"
    /\ ParseProgram(walk.code).ok
    /\ walk' = [walk EXCEPT !.phase = "parsed", !.ast = ParseProgram(walk.code).node]
    /\ UNCHANGED <<callerVars, scan, py, app>>

\* acorn.parse throws; the catch clause logs and rethrows
WalkThrows ==
    /\ walk.phase = "called"
    /\ ~ParseProgram(walk.code).ok
    /\ walk' = [walk EXCEPT !.phase = "threw"]
    /\ UNCHANGED <<callerVars, scan, py, app>>

\* const scopeStack = [new Set()]; walk(ast)
WalkTree ==
    /\ walk.phase = "parsed"
    /\ walk' = [walk EXCEPT !.phase = "walking", !.todo = <<Visit(walk.ast, NoNode, "")>>,
                            !.scopes = <<{}>>]
    /\ UNCHANGED <<callerVars, scan, py, app>>

\* one call of walk, up to the calls for its children
WalkNode ==
    /\ walk.phase = "walking"
    /\ walk.todo # <<>>
    /\ Head(walk.todo).do = "visit"
    /\ LET node == Head(walk.todo).node
           parent == Head(walk.todo).parent
           key == Head(walk.todo).key
           scopes == Entered(node, walk.scopes)
       IN  IF SkipsNode(parent, key)
           THEN walk' = [walk EXCEPT !.todo = Tail(walk.todo)]
           ELSE walk' = [walk EXCEPT
                    !.scopes = scopes,
                    !.patches = @ \o Registered(node, parent, key, scopes),
                    !.todo = VisitKids(node)
                             \o (IF OpensScope(node) THEN <<Leave>> ELSE <<>>)
                             \o Tail(walk.todo)]
    /\ UNCHANGED <<callerVars, scan, py, app>>

\* scopeStack.pop()
WalkLeave ==
    /\ walk.phase = "walking"
    /\ walk.todo # <<>>
    /\ Head(walk.todo).do = "leave"
    /\ walk' = [walk EXCEPT !.scopes = SubSeq(@, 1, Len(@) - 1), !.todo = Tail(walk.todo)]
    /\ UNCHANGED <<callerVars, scan, py, app>>

\* patches.sort(...); let out = code
WalkSort ==
    /\ walk.phase = "walking"
    /\ walk.todo = <<>>
    /\ walk' = [walk EXCEPT !.phase = "applying", !.patches = SortPatches(walk.patches),
                            !.out = walk.code, !.k = 1]
    /\ UNCHANGED <<callerVars, scan, py, app>>

\* one round of  for (const p of patches)
WalkApply ==
    /\ walk.phase = "applying"
    /\ walk.k <= Len(walk.patches)
    /\ walk' = [walk EXCEPT !.out = ApplyPatch(walk.out, walk.patches[walk.k], walk.pass),
                            !.k = walk.k + 1]
    /\ UNCHANGED <<callerVars, scan, py, app>>

\* return out
WalkReturn ==
    /\ walk.phase = "applying"
    /\ walk.k > Len(walk.patches)
    /\ walk' = [walk EXCEPT !.phase = "returned"]
    /\ UNCHANGED <<callerVars, scan, py, app>>

\* instrumentCode called on the text it returned
WalkAgain ==
    /\ walk.phase = "returned"
    /\ walk.pass < MaxPasses
    /\ walk' = [phase |-> "called", pass |-> walk.pass + 1, source |-> walk.source,
                code |-> walk.out, ast |-> <<>>, todo |-> <<>>, scopes |-> <<>>,
                patches |-> <<>>, out |-> <<>>, k |-> 0]
    /\ UNCHANGED <<callerVars, scan, py, app>>

NextWalk ==
    \/ WalkParse
    \/ WalkThrows
    \/ WalkTree
    \/ WalkNode
    \/ WalkLeave
    \/ WalkSort
    \/ WalkApply
    \/ WalkReturn
    \/ WalkAgain

WalkSpec == InitWalk /\ [][NextWalk]_vars

----------------------------------------------------------------------------
(* the control flow of a text: which of its statements a call runs *)

\* the tokens of a statement that were in the text before the pass: the
\* statement as the program's author wrote it
Written(node, toks, pass) ==
    SelectSeq(SubSeq(toks, node.start + 1, node.end),
              LAMBDA t : t.by < pass /\ t.kind \in {"expr", "decl", "return"})

\* the value of the test of an if: the parameter c as the caller passed it;
\* __tracer.checkLoop() is false while the budget lasts
Holds(cond, c) == cond = "c" /\ c

NotRun == [ran |-> <<>>, returned |-> FALSE]

\* running a statement: the statements run so far, and whether a return has
\* been reached (for the statements of a function without a loop)
RECURSIVE Run(_, _, _, _, _)
RECURSIVE RunList(_, _, _, _, _, _)

RunList(kids, i, toks, pass, c, st) ==
    IF i > Len(kids) \/ st.returned THEN st
    ELSE RunList(kids, i + 1, toks, pass, c, Run(kids[i][2], toks, pass, c, st))

Run(node, toks, pass, c, st) ==
    CASE node.type \in {"ExpressionStatement", "VariableDeclaration"} ->
            [st EXCEPT !.ran = @ \o Written(node, toks, pass)]
      [] node.type = "ReturnStatement" ->
            [ran |-> st.ran \o Written(node, toks, pass), returned |-> TRUE]
      [] node.type = "BlockStatement" ->
            RunList(node.kids, 1, toks, pass, c, st)
      [] node.type = "IfStatement" ->
            IF Holds(toks[node.start + 1].text, c)
            THEN Run(Kid(node, "consequent"), toks, pass, c, st)
            ELSE IF Kid(node, "alternate") # <<>>
            THEN Run(Kid(node, "alternate"), toks, pass, c, st)
            ELSE st
      [] node.type = "TryStatement" ->
            LET block == Run(Kid(node, "block"), toks, pass, c, st)
                finalizer == Run(Kid(node, "finalizer"), toks, pass, c,
                                 [block EXCEPT !.returned = FALSE])
            IN  [finalizer EXCEPT !.returned = @ \/ block.returned]
      [] OTHER -> st

\* the function declarations of a program
Functions(ast) ==
    {ast.kids[k][2] : k \in {j \in DOMAIN ast.kids :
                                 ast.kids[j][2].type = "FunctionDeclaration"}}

\* the call f(c) of a function of the text
CallOf(f, toks, pass, c) == Run(Kid(f, "body"), toks, pass, c, NotRun)

----------------------------------------------------------------------------
(* transpileCppToJs: function collection and findMatchingBrace              *)
(*                                                                         *)
(* A C++ text is a sequence of characters; the signature of a function     *)
(* (return type, name, parameter list) and the statement return 0; count   *)
(* as one character each.  Indices count from 0 as in the source.          *)

Signatures == {"int main()", "void f()"}

\* match[1]
SigName(sig) == IF sig = "int main()" THEN "main" ELSE "f"

\* the characters of a function body
Alphabet == {"{", "}", "\"", "'", "\\", "/", "*", "\n", "a"}

\* code[i], and '' where the source reads undefined or guards the index
CharAt(code, i) == IF i >= 0 /\ i < Len(code) THEN code[i + 1] ELSE ""

\* code.indexOf(ch, from)
RECURSIVE IndexOf(_, _, _)
IndexOf(code, ch, from) ==
    IF from >= Len(code) THEN -1
    ELSE IF CharAt(code, from) = ch THEN from
    ELSE IndexOf(code, ch, from + 1)

\* code.indexOf('*/', from)
RECURSIVE IndexOfClose(_, _)
IndexOfClose(code, from) ==
    IF from + 1 >= Len(code) THEN -1
    ELSE IF CharAt(code, from) = "*" /\ CharAt(code, from + 1) = "/" THEN from
    ELSE IndexOfClose(code, from + 1)

\* the locals of findMatchingBrace at the loop test; at: the value returned
\* once returned holds
Loop(i, depth, inString, inChar) ==
    [i |-> i, depth |-> depth, inString |-> inString, inChar |-> inChar,
     returned |-> FALSE, at |-> -1]

ReturnAt(l, index) == [l EXCEPT !.returned = TRUE, !.at = index]

\* one iteration of  for (let i = openIndex; i < code.length; i++)
LoopBody(code, l) ==
    LET ch == CharAt(code, l.i)
        prev == IF l.i > 0 THEN CharAt(code, l.i - 1) ELSE ""
        eol == IndexOf(code, "\n", l.i)
        end == IndexOfClose(code, l.i + 2)
        depth == IF ch = "{" THEN l.depth + 1
                 ELSE IF ch = "}" THEN l.depth - 1
                 ELSE l.depth
    IN  IF ~l.inChar /\ ch = "\"" /\ prev # "\\"
        THEN [l EXCEPT !.inString = ~l.inString, !.i = l.i + 1]
        ELSE IF ~l.inString /\ ch = "'" /\ prev # "\\"
        THEN [l EXCEPT !.inChar = ~l.inChar, !.i = l.i + 1]
        ELSE IF l.inString \/ l.inChar
        THEN [l EXCEPT !.i = l.i + 1]
        ELSE IF ch = "/" /\ l.i + 1 < Len(code) /\ CharAt(code, l.i + 1) = "/"
        THEN IF eol = -1 THEN ReturnAt(l, -1) ELSE [l EXCEPT !.i = eol + 1]
        ELSE IF ch = "/" /\ l.i + 1 < Len(code) /\ CharAt(code, l.i + 1) = "*"
        THEN IF end = -1 THEN ReturnAt(l, -1) ELSE [l EXCEPT !.i = end + 2]
        ELSE IF ch = "}" /\ depth = 0
        THEN ReturnAt([l EXCEPT !.depth = depth], l.i)
        ELSE [l EXCEPT !.depth = depth, !.i = l.i + 1]

\* funcRegex matches at the signature at index p: the signature stands at
\* the start of the text or after a line break, and the brace follows it
MatchAt(code, p, lastIndex) ==
    /\ CharAt(code, p) \in Signatures
    /\ CharAt(code, p + 1) = "{"
    /\ \/ p = 0 /\ lastIndex = 0
       \/ p > 0 /\ CharAt(code, p - 1) = "\n" /\ p - 1 >= lastIndex

\* funcRegex.exec(processedCode): the index of the signature of the next
\* match, or -1 for null
NextMatch(code, lastIndex) ==
    LET found == {p \in 0..(Len(code) - 1) : MatchAt(code, p, lastIndex)}
    IN  IF found = {} THEN -1 ELSE CHOOSE p \in found : \A q \in found : p <= q

\* functions.push({ name, params, body, fullMatch })
Function(code, p, open, close) ==
    [name |-> SigName(CharAt(code, p)), body |-> SubSeq(code, open + 2, close)]

\* body.replace(/return\s+0\s*;/g, '')
WithoutReturn0(text) == SelectSeq(text, LAMBDA ch : ch # "return 0;")

\* parts.join('\n\n')
RECURSIVE JoinParts(_)
JoinParts(parts) ==
    IF parts = <<>> THEN <<>>
    ELSE IF Len(parts) = 1 THEN parts[1]
    ELSE parts[1] \o <<"\n", "\n">> \o JoinParts(Tail(parts))

\* `function ${func.name}(${jsParams}) {${func.body}}`
HelperText(func) == <<"function " \o func.name \o "()", "{">> \o func.body \o <<"}">>

\* Separate main from helper functions and build the output
Assembled(code, functions) ==
    LET helpers == SelectSeq(functions, LAMBDA func : func.name # "main")
        mains == SelectSeq(functions, LAMBDA func : func.name = "main")
        parts == [k \in DOMAIN helpers |-> HelperText(helpers[k])]
                 \o (IF mains = <<>> THEN <<>> ELSE <<WithoutReturn0(mains[1].body)>>)
    IN  IF functions = <<>> THEN WithoutReturn0(code) ELSE JoinParts(parts)

\* Regular types -> let: int is among the types, void is not
Retyped(text) ==
    [k \in DOMAIN text |-> IF text[k] = "int main()" THEN "let main()" ELSE text[k]]

\* js.replace(/\n{3,}/g, '\n\n')
RECURSIVE BlankLinesCut(_)
BlankLinesCut(text) ==
    IF Len(text) < 3 THEN text
    ELSE IF text[1] = "\n" /\ text[2] = "\n" /\ text[3] = "\n"
    THEN BlankLinesCut(Tail(text))
    ELSE <<text[1]>> \o BlankLinesCut(Tail(text))

\* js.trim()
RECURSIVE Trimmed(_)
Trimmed(text) ==
    IF text = <<>> THEN text
    ELSE IF text[1] = "\n" THEN Trimmed(Tail(text))
    ELSE IF text[Len(text)] = "\n" THEN Trimmed(SubSeq(text, 1, Len(text) - 1))
    ELSE text

\* the bodies of at most n characters
RECURSIVE Bodies(_)
Bodies(n) ==
    IF n = 0 THEN {<<>>}
    ELSE Bodies(n - 1) \cup {Append(b, ch) : b \in Bodies(n - 1), ch \in Alphabet}

\* the directive  #define N 5  and the declaration it is rewritten to, each
\* kept as one element of the text
Directive == "#define N 5"

Declaration == "const N = 5;"

\* js.replace(/#define\s+(\w+)\s+(.+)/g, 'const $1 = $2;')
Defined(text) == [i \in 1..Len(text) |-> IF text[i] = Directive THEN Declaration ELSE text[i]]

\* int main() { body       with and without the closing brace, a helper before
\* main, a helper whose brace is never closed, texts without a function,
\* int main() {a"\\"a}  (a string that ends with an escaped backslash) and
\* int main() {//'<line break>}  (a quote inside a comment), and #define N 5
\* before main and before a text without a function
CppTexts ==
    {<<"int main()", "{">> \o b : b \in Bodies(MaxText)}
    \cup {<<"int main()", "{", "a", "\"", "\\", "\\", "\"", "a", "}">>,
          <<"int main()", "{", "/", "/", "'", "\n", "}">>,
          <<"void f()", "{", "a", "}", "\n", "int main()", "{", "a", "return 0;", "}">>,
          <<"void f()", "{", "a", "\n", "int main()", "{", "a", "}">>,
          <<"a", "return 0;">>,
          <<Directive, "\n", "int main()", "{", "a", "}">>,
          <<Directive, "\n", "a">>,
          <<>>}

\* transpileCppToJs(cppCode) has been called and Phase 1 has rewritten the
\* directives of cppCode; missed: how many times findMatchingBrace returned
\* -1 (history)
Scanning(cppCode) ==
    [phase |-> "exec", cppCode |-> cppCode, code |-> Defined(cppCode), lastIndex |-> 0, match |-> -1,
     loop |-> Loop(0, 0, FALSE, FALSE), functions |-> <<>>, missed |-> 0, js |-> <<>>]

InitScan ==
    /\ \E code \in CppTexts :
           /\ scan = Scanning(code)
           /\ userCode = [parses |-> FALSE, translates |-> TRUE, code |-> <<>>,
                          text |-> <<>>]
    /\ walk = NoWalk
    /\ language = "cpp"
    /\ pc = "transpile"
    /\ timeline = <<>>
    /\ currentLogs = <<>>
    /\ lastLine = 0
    /\ stepCount = 0
    /\ stack = <<"main">>
    /\ currentLine = 1
    /\ inputIndex = 0
    /\ instrumented = <<>>
    /\ ip = 1
    /\ iter = 0
    /\ tryDepth = 0
    /\ thrown = NoThrow
    /\ result = Pending
    /\ evaluated = FALSE
    /\ lineCalls = [setLine |-> 0, step |-> 0, latest |-> "none"]
    /\ env = EmptyEnv
    /\ inputValue = <<>>
    /\ earlier = <<>>
    /\ callers = <<>>
    /\ py = NoPy
    /\ app = NoApp

\* while ((match = funcRegex.exec(processedCode)) !== null): a match, and
\* the call findMatchingBrace(processedCode, openBraceIndex)
ScanExec ==
    /\ scan.phase = "exec"
    /\ NextMatch(scan.code, scan.lastIndex) # -1
    /\ LET p == NextMatch(scan.code, scan.lastIndex)
       IN  scan' = [scan EXCEPT !.phase = "brace", !.match = p, !.lastIndex = p + 2,
                                !.loop = Loop(p + 1, 0, FALSE, FALSE)]
    /\ UNCHANGED <<callerVars, walk, py, app>>

\* one iteration of the loop of findMatchingBrace
ScanLoop ==
    /\ scan.phase = "brace"
    /\ ~scan.loop.returned
    /\ scan.loop.i < Len(scan.code)
    /\ scan' = [scan EXCEPT !.loop = LoopBody(scan.code, scan.loop)]
    /\ UNCHANGED <<callerVars, walk, py, app>>

\* the loop ends at code.length: return -1
ScanLoopEnds ==
    /\ scan.phase = "brace"
    /\ ~scan.loop.returned
    /\ scan.loop.i >= Len(scan.code)
    /\ scan' = [scan EXCEPT !.loop = ReturnAt(scan.loop, -1)]
    /\ UNCHANGED <<callerVars, walk, py, app>>

\* functions.push(...)
ScanPush ==
    /\ scan.phase = "brace"
    /\ scan.loop.returned
    /\ scan.loop.at # -1
    /\ scan' = [scan EXCEPT
           !.phase = "exec",
           !.functions = Append(@, Function(scan.code, scan.match, scan.match + 1,
                                            scan.loop.at))]
    /\ UNCHANGED <<callerVars, walk, py, app>>

\* if (closeBraceIndex === -1) continue
ScanSkip ==
    /\ scan.phase = "brace"
    /\ scan.loop.returned
    /\ scan.loop.at = -1
    /\ scan' = [scan EXCEPT !.phase = "exec", !.missed = @ + 1]
    /\ UNCHANGED <<callerVars, walk, py, app>>

\* exec returns null: the output is assembled
ScanAssemble ==
    /\ scan.phase = "exec"
    /\ NextMatch(scan.code, scan.lastIndex) = -1
    /\ scan' = [scan EXCEPT !.phase = "assembled",
                            !.js = Assembled(scan.code, scan.functions)]
    /\ UNCHANGED <<callerVars, walk, py, app>>

\* phases 3 to 10, and return js
ScanReturn ==
    /\ scan.phase = "assembled"
    /\ scan' = [scan EXCEPT !.phase = "returned",
                            !.js = Trimmed(BlankLinesCut(Retyped(scan.js)))]
    /\ UNCHANGED <<callerVars, walk, py, app>>

NextScan ==
    \/ ScanExec
    \/ ScanLoop
    \/ ScanLoopEnds
    \/ ScanPush
    \/ ScanSkip
    \/ ScanAssemble
    \/ ScanReturn

ScanSpec == InitScan /\ [][NextScan]_vars

----------------------------------------------------------------------------
(* executeCode *)

InitWith(langs, sources) ==
    /\ language \in langs
    /\ userCode \in sources
    /\ pc = "transpile"
    /\ timeline = <<>>
    /\ currentLogs = <<>>
    /\ lastLine = 0
    /\ stepCount = 0
    /\ stack = <<"main">>
    /\ currentLine = 1
    /\ inputIndex = 0
    /\ instrumented = <<>>
    /\ ip = 1
    /\ iter = 0
    /\ tryDepth = 0
    /\ thrown = NoThrow
    /\ result = Pending
    /\ evaluated = FALSE
    /\ lineCalls = [setLine |-> 0, step |-> 0, latest |-> "none"]
    /\ env = EmptyEnv
    /\ inputValue = <<>>
    /\ earlier = <<>>
    /\ callers = <<>>
    /\ py = NoPy
    /\ app = NoApp
    /\ walk = NoWalk
    /\ scan = NoScan

Init ==
    \/ InitWith(Languages, {Source(p) : p \in Programs} \cup {Unparsable, Untranslatable})
    \/ InitWith({"python", "py"}, {PySource(t) : t \in PyTexts})

tracerVars == <<stepCount, stack, currentLine, inputIndex>>
driverVars == <<timeline, currentLogs, lastLine>>
programVars == <<instrumented, ip, iter, tryDepth>>
inputVars == <<language, userCode>>

NeedsFrontEnd == language \in {"c++", "cpp", "python", "py"}

\* language is neither C++ nor Python: codeToInstrument = userCode
NoTranspile ==
    /\ pc = "transpile"
    /\ ~NeedsFrontEnd
    /\ pc' = "instrument"
    /\ UNCHANGED <<inputVars, tracerVars, driverVars, programVars, thrown, result,
                   evaluated, lineCalls>>
    /\ UNCHANGED <<env, inputValue, earlier, callers, toolVars>>

\* transpileCppToJs / transpilePythonToJs returns
TranspileReturns ==
    /\ pc = "transpile"
    /\ NeedsFrontEnd
    /\ userCode.translates
    /\ pc' = "instrument"
    /\ UNCHANGED <<inputVars, tracerVars, driverVars, programVars, thrown, result,
                   evaluated, lineCalls>>
    /\ UNCHANGED <<env, inputValue, earlier, callers, toolVars>>

\* the front-end throws: throw new Error(`Transpilation Failed: ${message} `)
TranspileThrows ==
    /\ pc = "transpile"
    /\ NeedsFrontEnd
    /\ ~userCode.translates
    /\ \E m \in {"Maximum call stack size exceeded"} :
           thrown' = ErrorObject("Transpilation Failed: " \o m \o " ")
    /\ pc' = "throwing"
    /\ UNCHANGED <<inputVars, tracerVars, driverVars, programVars, result,
                   evaluated, lineCalls>>
    /\ UNCHANGED <<env, inputValue, earlier, callers, toolVars>>

\* instrumentCode returns the instrumented text
InstrumentReturns ==
    /\ pc = "instrument"
    /\ userCode.parses
    /\ instrumented' = userCode.code
    /\ pc' = "evaluate"
    /\ UNCHANGED <<inputVars, tracerVars, driverVars, ip, iter, tryDepth, thrown,
                   result, evaluated, lineCalls>>
    /\ UNCHANGED <<env, inputValue, earlier, callers, toolVars>>

\* acorn.parse rejects the text; instrumentCode logs and rethrows
InstrumentThrows ==
    /\ pc = "instrument"
    /\ ~userCode.parses
    /\ thrown' = ErrorObject("Unexpected token (1:0)")
    /\ pc' = "throwing"
    /\ UNCHANGED <<inputVars, tracerVars, driverVars, programVars, result,
                   evaluated, lineCalls>>
    /\ UNCHANGED <<env, inputValue, earlier, callers, toolVars>>

\* new Function(wrappedCode).call(null, tracer)
Evaluate ==
    /\ pc = "evaluate"
    /\ evaluated' = TRUE
    /\ pc' = "run"
    /\ UNCHANGED <<inputVars, tracerVars, driverVars, programVars, thrown, result,
                   lineCalls>>
    /\ UNCHANGED <<env, inputValue, earlier, callers, toolVars>>

Cur == instrumented[ip]
At(op) == pc = "run" /\ ip <= Len(instrumented) /\ Cur.op = op

TracerEnter ==
    /\ At("enter")
    /\ stack' = EnterStack(stack, Cur.s)
    /\ timeline' = Settled(timeline, stack', currentLogs)
    /\ tryDepth' = tryDepth + 1
    /\ ip' = ip + 1
    /\ callers' = Append(callers, stack)
    /\ UNCHANGED <<inputVars, pc, currentLogs, lastLine, stepCount, currentLine, inputIndex,
                   instrumented, iter, thrown, result, evaluated, lineCalls>>
    /\ UNCHANGED <<env, inputValue, earlier, toolVars>>

TracerExit ==
    /\ At("exit")
    /\ stack' = ExitStack(stack)
    /\ timeline' = Settled(timeline, stack', currentLogs)
    /\ tryDepth' = IF Cur.n = 1 THEN tryDepth - 1 ELSE tryDepth
    /\ ip' = ip + 1
    /\ callers' = IF Cur.n = 1 THEN SubSeq(callers, 1, Len(callers) - 1) ELSE callers
    /\ UNCHANGED <<inputVars, pc, currentLogs, lastLine, stepCount, currentLine, inputIndex,
                   instrumented, iter, thrown, result, evaluated, lineCalls>>
    /\ UNCHANGED <<env, inputValue, earlier, toolVars>>

TracerSetLine ==
    /\ At("setLine")
    /\ currentLine' = Cur.n
    /\ lastLine' = Cur.n
    /\ lineCalls' = [lineCalls EXCEPT !.setLine = Cur.n, !.latest = "setLine"]
    /\ ip' = ip + 1
    /\ UNCHANGED <<inputVars, pc, timeline, currentLogs, stepCount, stack,
                   inputIndex, instrumented, iter, tryDepth, thrown, result,
                   evaluated>>
    /\ UNCHANGED <<env, inputValue, earlier, callers, toolVars>>

TracerStep ==
    /\ At("step")
    /\ stepCount' = stepCount + 1
    /\ IF LimitExceeded(stepCount)
       THEN /\ thrown' = ErrorObject(LimitMessage)
            /\ pc' = "throwing"
            /\ UNCHANGED <<timeline, currentLine, lastLine, ip, lineCalls>>
       ELSE /\ currentLine' = Cur.n
            /\ lastLine' = LineAfterStep(lastLine, Cur.n)
            /\ timeline' = Append(timeline, StepEntry(Cur.n, EvalAll(Cur.obj, env), stack,
                                                    currentLogs))
            /\ lineCalls' = [lineCalls EXCEPT !.step = Cur.n, !.latest = "step"]
            /\ ip' = ip + 1
            /\ UNCHANGED <<thrown, pc>>
    /\ UNCHANGED <<inputVars, currentLogs, stack, inputIndex, instrumented, iter,
                   tryDepth, result, evaluated>>
    /\ UNCHANGED <<env, inputValue, earlier, callers, toolVars>>

\* if (__tracer.checkLoop()) break;
TracerCheckLoop ==
    /\ At("checkLoop")
    /\ ip' = IF CheckLoop(stepCount) THEN ip + Cur.n ELSE ip + 1
    /\ UNCHANGED <<inputVars, pc, tracerVars, driverVars, instrumented, iter,
                   tryDepth, thrown, result, evaluated, lineCalls>>
    /\ UNCHANGED <<env, inputValue, earlier, callers, toolVars>>

\* console.log, console.error and console.warn are all __tracer.log
TracerLog ==
    /\ At("console")
    /\ currentLogs' = Append(currentLogs, LogEntry(Cur.s, EvalAll(Cur.args, env)))
    /\ timeline' = Settled(timeline, stack, currentLogs')
    /\ ip' = ip + 1
    /\ UNCHANGED <<inputVars, pc, tracerVars, lastLine, instrumented,
                   iter, tryDepth, thrown, result, evaluated, lineCalls>>
    /\ UNCHANGED <<env, inputValue, earlier, callers, toolVars>>

TracerInput ==
    /\ At("input")
    /\ LET val == InputAt(inputIndex)
       IN  /\ currentLogs' = Append(currentLogs, InputEntry(val))
           /\ inputValue' = <<val>>
    /\ inputIndex' = inputIndex + 1
    /\ timeline' = Settled(timeline, stack, currentLogs')
    /\ ip' = ip + 1
    /\ UNCHANGED <<inputVars, pc, stepCount, stack, currentLine, lastLine,
                   instrumented, iter, tryDepth, thrown, result, evaluated,
                   lineCalls>>
    /\ UNCHANGED <<env, earlier, callers, toolVars>>

\* the program throws a value of its own
ProgramThrows ==
    /\ At("throw")
    /\ thrown' = Cur.e
    /\ pc' = "throwing"
    /\ UNCHANGED <<inputVars, tracerVars, driverVars, programVars, result,
                   evaluated, lineCalls>>
    /\ UNCHANGED <<env, inputValue, earlier, callers, toolVars>>

\* an assignment of the program
Assign ==
    /\ At("assign")
    /\ env' = [env EXCEPT ![Cur.s] = Eval(Cur.args[1], env)]
    /\ ip' = ip + 1
    /\ UNCHANGED <<inputVars, pc, tracerVars, driverVars, instrumented, iter,
                   tryDepth, thrown, result, evaluated, lineCalls>>
    /\ UNCHANGED <<inputValue, earlier, callers, toolVars>>

\* the test of an if statement
Branch ==
    /\ At("branch")
    /\ ip' = IF Eval(Cur.args[1], env) = Bool(TRUE) THEN ip + 1 ELSE ip + Cur.n
    /\ UNCHANGED <<inputVars, pc, tracerVars, driverVars, instrumented, iter,
                   tryDepth, thrown, result, evaluated, lineCalls>>
    /\ UNCHANGED <<env, inputValue, earlier, callers, toolVars>>

LoopInit ==
    /\ At("loopInit")
    /\ iter' = 0
    /\ ip' = ip + 1
    /\ UNCHANGED <<inputVars, pc, tracerVars, driverVars, instrumented, tryDepth,
                   thrown, result, evaluated, lineCalls>>
    /\ UNCHANGED <<env, inputValue, earlier, callers, toolVars>>

LoopTest ==
    /\ At("loopTest")
    /\ IF iter < Cur.m
       THEN iter' = iter + 1 /\ ip' = ip + 1
       ELSE iter' = iter /\ ip' = ip + Cur.n
    /\ UNCHANGED <<inputVars, pc, tracerVars, driverVars, instrumented, tryDepth,
                   thrown, result, evaluated, lineCalls>>
    /\ UNCHANGED <<env, inputValue, earlier, callers, toolVars>>

LoopJump ==
    /\ At("jump")
    /\ ip' = ip + Cur.n
    /\ UNCHANGED <<inputVars, pc, tracerVars, driverVars, instrumented, iter,
                   tryDepth, thrown, result, evaluated, lineCalls>>
    /\ UNCHANGED <<env, inputValue, earlier, callers, toolVars>>

\* the exception leaves an instrumented function: finally { __tracer.exit(); }
RunFinally ==
    /\ pc = "throwing"
    /\ tryDepth > 0
    /\ stack' = ExitStack(stack)
    /\ timeline' = Settled(timeline, stack', currentLogs)
    /\ tryDepth' = tryDepth - 1
    /\ callers' = SubSeq(callers, 1, Len(callers) - 1)
    /\ UNCHANGED <<inputVars, pc, currentLogs, lastLine, stepCount, currentLine, inputIndex,
                   instrumented, ip, iter, thrown, result, evaluated, lineCalls>>
    /\ UNCHANGED <<env, inputValue, earlier, toolVars>>

\* the program ran to its end: resolve(timeline)
ResolveTimeline ==
    /\ pc = "run"
    /\ ip > Len(instrumented)
    /\ result' = Resolved(timeline)
    /\ pc' = "done"
    /\ UNCHANGED <<inputVars, tracerVars, driverVars, programVars, thrown,
                   evaluated, lineCalls>>
    /\ UNCHANGED <<env, inputValue, earlier, callers, toolVars>>

\* catch (e: any) { resolve([...timeline, {...}]) }; reading e.message of null
\* or undefined throws inside the promise executor, which rejects the promise
Catch ==
    /\ pc = "throwing"
    /\ tryDepth = 0
    /\ result' = IF HasProperties(thrown)
                 THEN Resolved(Append(timeline,
                                      ErrorStep(timeline, currentLogs, lastLine, thrown)))
                 ELSE Rejected("TypeError: Cannot read properties of " \o thrown.kind)
    /\ pc' = "done"
    /\ UNCHANGED <<inputVars, tracerVars, driverVars, programVars, thrown,
                   evaluated, lineCalls>>
    /\ UNCHANGED <<env, inputValue, earlier, callers, toolVars>>

Next ==
    \/ NoTranspile
    \/ TranspileReturns
    \/ TranspileThrows
    \/ InstrumentReturns
    \/ InstrumentThrows
    \/ Evaluate
    \/ TracerEnter
    \/ TracerExit
    \/ TracerSetLine
    \/ TracerStep
    \/ TracerCheckLoop
    \/ TracerLog
    \/ TracerInput
    \/ ProgramThrows
    \/ Assign
    \/ Branch
    \/ LoopInit
    \/ LoopTest
    \/ LoopJump
    \/ RunFinally
    \/ ResolveTimeline
    \/ Catch

Spec == Init /\ [][Next]_vars

\* the engine runs the call to completion: it never stops while a step is possible
FairSpec == Spec /\ WF_vars(Next)

\* (mutant) a cursor kept outside executeCode, which a call takes over from
\* the call before it
FreshCursor_TakenOver(previous) == previous

\* _inputIndex: 0 of the tracer literal each call builds, wherever the cursor
\* of the call before it stood
FreshCursor(previous) == 0

\* the texts and languages of the calls that follow one another
RunSources == {Source(p) : p \in StmtSeqs(1, 2)} \cup {Unparsable, Untranslatable}
RunLanguages == {"javascript", "python"}

\* Another call executeCode(code, lang) once a call has returned its promise
\* settled: the promise executor runs synchronously, so calls never overlap.
\* Every local of executeCode and the tracer are built anew.
CallAgain ==
    /\ pc = "done"
    /\ Len(earlier) < MaxCalls - 1
    /\ earlier' = Append(earlier, [language |-> language, userCode |-> userCode,
                                   result |-> result])
    /\ language' \in RunLanguages
    /\ userCode' \in RunSources
    /\ pc' = "transpile"
    /\ timeline' = <<>>
    /\ currentLogs' = <<>>
    /\ lastLine' = 0
    /\ stepCount' = 0
    /\ stack' = <<"main">>
    /\ currentLine' = 1
    /\ inputIndex' = FreshCursor(inputIndex)
    /\ instrumented' = <<>>
    /\ ip' = 1
    /\ iter' = 0
    /\ tryDepth' = 0
    /\ thrown' = NoThrow
    /\ result' = Pending
    /\ evaluated' = FALSE
    /\ lineCalls' = [setLine |-> 0, step |-> 0, latest |-> "none"]
    /\ env' = EmptyEnv
    /\ inputValue' = <<>>
    /\ callers' = <<>>
    /\ UNCHANGED toolVars

NextRuns ==
    \/ Next
    \/ CallAgain

InitRuns == InitWith(RunLanguages, RunSources)

RunsSpec == InitRuns /\ [][NextRuns]_vars

\* The run of a text instrumented once, and after it the run of the same text
\* instrumented twice.
LoopSizes == {1, 2, 3, LoopRuns}

InitFullTwice == InitWith({"javascript"}, {Source(Counting(n)) : n \in LoopSizes})

\* executeCode's own instrumentCode call is the first pass; the second run
\* evaluates the text a second instrumentCode call returns for the first's
RunAgain ==
    /\ pc = "done"
    /\ earlier = <<>>
    /\ \E n \in LoopSizes :
           /\ userCode = Source(Counting(n))
           /\ userCode' = Source(CountingAgain(n))
    /\ earlier' = <<[language |-> language, userCode |-> userCode, result |-> result]>>
    /\ language' = language
    /\ pc' = "instrument"
    /\ timeline' = <<>>
    /\ currentLogs' = <<>>
    /\ lastLine' = 0
    /\ stepCount' = 0
    /\ stack' = <<"main">>
    /\ currentLine' = 1
    /\ inputIndex' = 0
    /\ instrumented' = <<>>
    /\ ip' = 1
    /\ iter' = 0
    /\ tryDepth' = 0
    /\ thrown' = NoThrow
    /\ result' = Pending
    /\ evaluated' = FALSE
    /\ lineCalls' = [setLine |-> 0, step |-> 0, latest |-> "none"]
    /\ env' = EmptyEnv
    /\ inputValue' = <<>>
    /\ callers' = <<>>
    /\ UNCHANGED toolVars

NextTwice ==
    \/ NoTranspile
    \/ InstrumentReturns
    \/ Evaluate
    \/ TracerSetLine
    \/ TracerStep
    \/ TracerCheckLoop
    \/ TracerLog
    \/ Assign
    \/ LoopInit
    \/ LoopTest
    \/ LoopJump
    \/ ResolveTimeline
    \/ Catch
    \/ RunAgain

\* the two runs from their start
FullTwiceSpec == InitFullTwice /\ [][NextTwice]_vars

\* the snapshot step(L, { x }) records when x is v, and step(L, { })
SnapX(L, v, logs) ==
    StepEntry(L, EvalAll(TraceObject({"x"}), [EmptyEnv EXCEPT !["x"] = Num(v)]),
              <<"main">>, logs)
SnapNone(L) == StepEntry(L, EvalAll(TraceObject({}), EmptyEnv), <<"main">>, <<>>)

\* the Timeline the run of Counting(n) returns
FirstTimeline(n) ==
    LET logs == <<LogEntry("log", <<Num(n)>>)>>
    IN  <<SnapX(1, 0, <<>>)>> \o [k \in 1..n |-> SnapX(2, k, <<>>)]
        \o <<SnapX(3, n, logs), SnapX(4, 0, logs)>>

\* the snapshots of the run of CountingAgain(n) when its loop has made j
\* iterations: four for line 1, and four an iteration, the first of them
\* ahead of the assignment
SecondSteps(j) ==
    <<SnapNone(1), SnapX(1, 0, <<>>), SnapX(1, 0, <<>>), SnapX(1, 0, <<>>)>>
    \o [i \in 1..(4 * j) |->
           SnapX(2, IF (i - 1) % 4 = 0 THEN (i - 1) \div 4 ELSE (i - 1) \div 4 + 1, <<>>)]

\* the loop test of CountingAgain(n), and the iterations made where InitTwice
\* takes the second run up
LoopHead == Len(Again(1, IAssign("x", Num(0)), {}, {"x"})) + 2
TakenUpAt == (MAX_STEPS - Slack - 4) \div 4

\* The state of the second run at its loop test when the loop has made j
\* iterations, the first run having returned.
MidTwice(n, j) ==
    /\ language = "javascript"
    /\ userCode = Source(CountingAgain(n))
    /\ pc = "run"
    /\ timeline = SecondSteps(j)
    /\ currentLogs = <<>>
    /\ lastLine = 2
    /\ stepCount = 4 + 4 * j
    /\ stack = <<"main">>
    /\ currentLine = 2
    /\ inputIndex = 0
    /\ instrumented = CountingAgain(n)
    /\ ip = LoopHead
    /\ iter = j
    /\ tryDepth = 0
    /\ thrown = NoThrow
    /\ result = Pending
    /\ evaluated = TRUE
    /\ lineCalls = [setLine |-> 2, step |-> 2, latest |-> "step"]
    /\ env = [EmptyEnv EXCEPT !["x"] = Num(j)]
    /\ inputValue = <<>>
    /\ earlier = <<[language |-> "javascript", userCode |-> Source(Counting(n)),
                    result |-> Resolved(FirstTimeline(n))]>>
    /\ callers = <<>>
    /\ py = NoPy
    /\ app = NoApp
    /\ walk = NoWalk
    /\ scan = NoScan

\* The short loops from the start of the first run, the long loop taken up in
\* the second run Slack snapshots (or a little more) before the budget is
\* used up.
InitTwice ==
    \/ InitWith({"javascript"}, {Source(Counting(n)) : n \in LoopSizes \ {LoopRuns}})
    \/ MidTwice(LoopRuns, TakenUpAt)

TwiceSpec == InitTwice /\ [][NextTwice]_vars

\* MidTwiceAsComputed: the two runs of the long loop from their start pass
\* the loop test of the second run in exactly the state InitTwice takes it up in.
AtMidTwice ==
    /\ pc = "run"
    /\ instrumented = CountingAgain(LoopRuns)
    /\ ip = LoopHead
    /\ iter = TakenUpAt

MidTwiceAsComputed == AtMidTwice => MidTwice(LoopRuns, TakenUpAt)

MidTwiceNotReached == ~AtMidTwice

\* The snapshots a loop whose body is `body` (setLine/step pairs) has recorded
\* after j iterations.
StepsOf(body, j) ==
    LET k == Len(body) \div 2
    IN  [i \in 1..(j * k) |->
            LET ins == body[2 * (((i - 1) % k) + 1)]
            IN  StepEntry(ins.n, ins.obj, <<"main">>, <<>>)]

\* The state of the run of program p at the head of its loop (instruction
\* head) when the loop has made j iterations.
MidRun(p, head, body, j) ==
    /\ language = "javascript"
    /\ userCode = Source(p)
    /\ pc = "run"
    /\ timeline = StepsOf(body, j)
    /\ currentLogs = <<>>
    /\ lastLine = body[Len(body)].n
    /\ stepCount = j * (Len(body) \div 2)
    /\ stack = <<"main">>
    /\ currentLine = body[Len(body)].n
    /\ inputIndex = 0
    /\ instrumented = p
    /\ ip = head
    /\ iter = IF p[1].op = "loopInit" THEN j ELSE 0
    /\ tryDepth = 0
    /\ thrown = NoThrow
    /\ result = Pending
    /\ evaluated = TRUE
    /\ lineCalls = [setLine |-> body[Len(body)].n, step |-> body[Len(body)].n,
                    latest |-> "step"]
    /\ env = EmptyEnv
    /\ inputValue = <<>>
    /\ earlier = <<>>
    /\ callers = <<>>
    /\ py = NoPy
    /\ app = NoApp
    /\ walk = NoWalk
    /\ scan = NoScan

\* The runs that meet the step budget, each taken up Slack snapshots (or a
\* little more) before the budget is used up, with the one-statement programs
\* from their start.
InitBudget ==
    \/ \E r \in BudgetRuns : MidRun(r.p, r.head, r.body, r.j)
    \/ InitWith(Languages, {Source(p) : p \in StmtSeqs(1, 2) \ {<<>>}}
                               \cup {Unparsable, Untranslatable})

BudgetSpec == InitBudget /\ [][Next]_vars

\* The same runs from their start.  MidRunAsComputed: the run of each budget
\* program passes its loop head, with the snapshots counted there, in exactly
\* the state InitBudget takes it up in.
InitFullRuns == InitWith({"javascript"}, {Source(r.p) : r \in BudgetRuns})

FullRunSpec == InitFullRuns /\ [][Next]_vars

AtMidRun(r) ==
    /\ pc = "run"
    /\ instrumented = r.p
    /\ ip = r.head
    /\ stepCount = r.j * (Len(r.body) \div 2)

MidRunAsComputed ==
    \A r \in BudgetRuns : AtMidRun(r) => MidRun(r.p, r.head, r.body, r.j)

MidRunNotReached == \A r \in BudgetRuns : ~AtMidRun(r)

----------------------------------------------------------------------------
(* transpilePythonToJs: one call, phase by phase *)

\* the lines of the texts: code lines at every indentation, the empty line
\* and the comment line
PyCodes ==
    {<<Expr("a")>>, <<PyFor("i", <<"3">>), Colon>>, <<Expr("d ="), Sp, LBrace>>, <<RBrace>>}

PyLines ==
    {PyLine(n, toks) : n \in 0..MaxIndent, toks \in PyCodes}
    \cup {PyLine(0, <<>>), PyLine(0, <<Comment>>)}

\* the texts of at most n lines
RECURSIVE PyInputs(_)
PyInputs(n) ==
    IF n = 0 THEN {<<>>}
    ELSE PyInputs(n - 1) \cup {Append(t, l) : t \in PyInputs(n - 1), l \in PyLines}

\* for x in range(args):
\*     print(x)
PyRange(args) ==
    <<PyLine(0, <<PyFor("x", args), Colon>>), PyLine(4, <<Expr("print(x)")>>)>>

RangeTexts == {PyRange(<<"n">>), PyRange(<<"a", "b">>), PyRange(<<"a", "b", "s">>)}

\* transpilePythonToJs(pythonCode) has been called
Translating(pythonCode) ==
    [phase |-> "phase1", pythonCode |-> pythonCode, i |-> 1, indentStack |-> <<0>>,
     processedLines |-> <<>>, js |-> <<>>]

InitPy ==
    /\ \E lines \in PyInputs(MaxLines) \cup RangeTexts \cup PyTexts : py = Translating(lines)
    /\ userCode = [parses |-> FALSE, translates |-> TRUE, code |-> <<>>, text |-> <<>>]
    /\ walk = NoWalk
    /\ scan = NoScan
    /\ app = NoApp
    /\ language = "python"
    /\ pc = "transpile"
    /\ timeline = <<>>
    /\ currentLogs = <<>>
    /\ lastLine = 0
    /\ stepCount = 0
    /\ stack = <<"main">>
    /\ currentLine = 1
    /\ inputIndex = 0
    /\ instrumented = <<>>
    /\ ip = 1
    /\ iter = 0
    /\ tryDepth = 0
    /\ thrown = NoThrow
    /\ result = Pending
    /\ evaluated = FALSE
    /\ lineCalls = [setLine |-> 0, step |-> 0, latest |-> "none"]
    /\ env = EmptyEnv
    /\ inputValue = <<>>
    /\ earlier = <<>>
    /\ callers = <<>>

\* for (let i = 0; i < lines.length; i++) { ... }: one round
PyRound ==
    /\ py.phase = "phase1"
    /\ py.i <= Len(py.pythonCode)
    /\ LET st == Phase1Line([stack |-> py.indentStack, out |-> py.processedLines],
                            py.pythonCode[py.i])
       IN  py' = [py EXCEPT !.i = @ + 1, !.indentStack = st.stack,
                            !.processedLines = st.out]
    /\ UNCHANGED <<callerVars, walk, scan, app>>

\* while (indentStack.length > 1) { pop; push the closing line }
\* js = processedLines.join('\n')
PyClose ==
    /\ py.phase = "phase1"
    /\ py.i > Len(py.pythonCode)
    /\ LET st == Closed([stack |-> py.indentStack, out |-> py.processedLines], 0 - 1)
       IN  py' = [py EXCEPT !.phase = "phase2", !.indentStack = st.stack,
                            !.processedLines = st.out, !.js = Joined(st.out)]
    /\ UNCHANGED <<callerVars, walk, scan, app>>

\* PHASE 2: Syntax Replacement
PyReplace ==
    /\ py.phase = "phase2"
    /\ py' = [py EXCEPT !.phase = "phase3", !.js = Phase2(@)]
    /\ UNCHANGED <<callerVars, walk, scan, app>>

\* PHASE 3: variable declarations; return js
PyDeclare ==
    /\ py.phase = "phase3"
    /\ py' = [py EXCEPT !.phase = "returned", !.js = Phase3(@)]
    /\ UNCHANGED <<callerVars, walk, scan, app>>

NextPy ==
    \/ PyRound
    \/ PyClose
    \/ PyReplace
    \/ PyDeclare

PySpec == InitPy /\ [][NextPy]_vars

\* the call returns what the three phases make of the text
PyAsComputed == py.phase = "returned" => py.js = transpilePythonToJs(py.pythonCode)

----------------------------------------------------------------------------
(* App: the component that runs the code and steps through the timeline *)

\* the texts the editor holds and the languages of the home page
AppSources == RunSources \ {Source(WhileTrue(<<>>))}
AppLanguages == RunLanguages

\* JS_DEFAULT_CODE, PYTHON_DEFAULT_CODE: a text that runs and leaves a step
DefaultCode(lang) == Source(Plain(2, Num(2)))

\* the useState initial values; awaiting: a handleRun call waits for the
\* promise of executeCode; ran (history): a handleRun call has run to its end
Mounted ==
    [page |-> "home", language |-> "javascript", code |-> DefaultCode("javascript"),
     timeline |-> <<>>, currentStepIndex |-> 0 - 1, isPlaying |-> FALSE,
     executionError |-> "", awaiting |-> FALSE, ran |-> FALSE]

InitApp ==
    /\ app = Mounted
    /\ walk = NoWalk
    /\ scan = NoScan
    /\ py = NoPy
    /\ language = "javascript"
    /\ userCode = DefaultCode("javascript")
    /\ pc = "idle"
    /\ timeline = <<>>
    /\ currentLogs = <<>>
    /\ lastLine = 0
    /\ stepCount = 0
    /\ stack = <<"main">>
    /\ currentLine = 1
    /\ inputIndex = 0
    /\ instrumented = <<>>
    /\ ip = 1
    /\ iter = 0
    /\ tryDepth = 0
    /\ thrown = NoThrow
    /\ result = Pending
    /\ evaluated = FALSE
    /\ lineCalls = [setLine |-> 0, step |-> 0, latest |-> "none"]
    /\ env = EmptyEnv
    /\ inputValue = <<>>
    /\ earlier = <<>>
    /\ callers = <<>>

\* (mutant) a Next handler without the upper clamp
onNext_Unclamped(i, length) == i + 1

\* onNext: i => Math.min(timeline.length - 1, i + 1)
onNext(i, length) == IF length - 1 < i + 1 THEN length - 1 ELSE i + 1

\* onPrev: i => Math.max(0, i - 1)
onPrev(i) == IF i - 1 > 0 THEN i - 1 ELSE 0

\* canNext, canPrev: the props that enable the two buttons of Controls
canNext == app.currentStepIndex < Len(app.timeline) - 1
canPrev == app.currentStepIndex > 0

\* executeCode(code, language) is called: the promise executor starts
\* synchronously, with locals and a tracer of its own
ExecuteCode(code, lang) ==
    /\ language' = lang
    /\ userCode' = code
    /\ pc' = "transpile"
    /\ timeline' = <<>>
    /\ currentLogs' = <<>>
    /\ lastLine' = 0
    /\ stepCount' = 0
    /\ stack' = <<"main">>
    /\ currentLine' = 1
    /\ inputIndex' = FreshCursor(inputIndex)
    /\ instrumented' = <<>>
    /\ ip' = 1
    /\ iter' = 0
    /\ tryDepth' = 0
    /\ thrown' = NoThrow
    /\ result' = Pending
    /\ evaluated' = FALSE
    /\ lineCalls' = [setLine |-> 0, step |-> 0, latest |-> "none"]
    /\ env' = EmptyEnv
    /\ inputValue' = <<>>
    /\ callers' = <<>>
    /\ UNCHANGED <<earlier, walk, scan, py>>

\* the handlers run between two tasks of the event loop: none runs while a
\* handleRun call waits, because the promise executor of executeCode is
\* synchronous and the continuation of the await is a microtask
Idle == app.page # "none" /\ ~app.awaiting

\* handleLanguageSelect(lang), and the effect on [page] that calls handleRun
\* when the editor opens with an empty timeline
handleLanguageSelect ==
    /\ Idle
    /\ app.page = "home"
    /\ \E lang \in AppLanguages :
           /\ app' = [app EXCEPT !.language = lang, !.code = DefaultCode(lang),
                                 !.timeline = <<>>, !.page = "editor",
                                 !.executionError = "", !.awaiting = TRUE]
           /\ ExecuteCode(DefaultCode(lang), lang)

\* the Home button: setPage('home')
GoHome ==
    /\ Idle
    /\ app.page = "editor"
    /\ app' = [app EXCEPT !.page = "home"]
    /\ UNCHANGED <<callerVars, walk, scan, py>>

\* handleCodeChange(newCode): setCode(newCode); setIsPlaying(false)
handleCodeChange ==
    /\ Idle
    /\ app.page = "editor"
    /\ \E code \in AppSources : app' = [app EXCEPT !.code = code, !.isPlaying = FALSE]
    /\ UNCHANGED <<callerVars, walk, scan, py>>

\* the Run button: setIsPlaying(false); handleRun()
RunClick ==
    /\ Idle
    /\ app.page = "editor"
    /\ app' = [app EXCEPT !.isPlaying = FALSE, !.executionError = "", !.awaiting = TRUE]
    /\ ExecuteCode(app.code, app.language)

\* onReset: setIsPlaying(false); setCurrentStepIndex(0); handleRun()
onReset ==
    /\ Idle
    /\ app.page = "editor"
    /\ app' = [app EXCEPT !.isPlaying = FALSE, !.currentStepIndex = 0,
                          !.executionError = "", !.awaiting = TRUE]
    /\ ExecuteCode(app.code, app.language)

\* handleRun after the await: setTimeline(result); setExecutionError(...) when
\* the last step is an error step; setCurrentStepIndex(0). A rejected promise
\* throws at the await and the three calls are not made.
handleRunResumes ==
    /\ app.page # "none"
    /\ app.awaiting
    /\ pc = "done"
    /\ app' = IF result.state = "resolved"
              THEN [app EXCEPT !.timeline = result.value,
                               !.executionError =
                                   IF Len(result.value) > 0
                                      /\ "isError" \in DOMAIN result.value[Len(result.value)]
                                      /\ result.value[Len(result.value)].isError
                                   THEN "error" ELSE "",
                               !.currentStepIndex = 0,
                               !.awaiting = FALSE, !.ran = TRUE]
              ELSE [app EXCEPT !.awaiting = FALSE]
    /\ UNCHANGED <<callerVars, walk, scan, py>>

\* onPlayPause: setIsPlaying(!isPlaying)
onPlayPause ==
    /\ Idle
    /\ app.page = "editor"
    /\ app' = [app EXCEPT !.isPlaying = ~@]
    /\ UNCHANGED <<callerVars, walk, scan, py>>

\* a click on the Next button, which is disabled unless canNext
NextClick ==
    /\ Idle
    /\ app.page = "editor"
    /\ canNext
    /\ app' = [app EXCEPT !.currentStepIndex = onNext(@, Len(app.timeline))]
    /\ UNCHANGED <<callerVars, walk, scan, py>>

\* a click on the Prev button, which is disabled unless canPrev
PrevClick ==
    /\ Idle
    /\ app.page = "editor"
    /\ canPrev
    /\ app' = [app EXCEPT !.currentStepIndex = onPrev(@)]
    /\ UNCHANGED <<callerVars, walk, scan, py>>

\* the interval of the auto-play effect fires: the effect is set up again
\* whenever isPlaying or timeline.length changes, so the callback reads the
\* length of the timeline displayed
Tick ==
    /\ Idle
    /\ app.isPlaying
    /\ app' = IF app.currentStepIndex < Len(app.timeline) - 1
              THEN [app EXCEPT !.currentStepIndex = @ + 1]
              ELSE [app EXCEPT !.isPlaying = FALSE]
    /\ UNCHANGED <<callerVars, walk, scan, py>>

NextApp ==
    \/ Next
    \/ handleLanguageSelect
    \/ GoHome
    \/ handleCodeChange
    \/ RunClick
    \/ onReset
    \/ handleRunResumes
    \/ onPlayPause
    \/ NextClick
    \/ PrevClick
    \/ Tick

AppSpec == InitApp /\ [][NextApp]_vars

----------------------------------------------------------------------------
(* calls of instrumented functions *)

\* function g() { x; }
\* function f() { g(); }
\* f();
NestedCalls ==
    <<ISetLine(3), IEnter("f"), ISetLine(2), IEnter("g")>> \o Plain(1, Num(1))
    \o <<IFinallyExit, IStep(2, Obj(Num(1))), IFinallyExit, IStep(3, Obj(Num(1)))>>

\* function f() { for (let i = 0; i < 2; i++) { return 1; } }
\* f();
\* the return leaves the loop and the try block for the finally block
ReturnInLoop ==
    <<ISetLine(2), IEnter("f"), ILoopInit, ILoopTest(2, 6), ICheckLoop(5),
      ISetLine(1), IStep(1, Obj(Fn)), IJump(2), IJump(0 - 5),
      IFinallyExit, IStep(2, Obj(Fn))>>

\* function g() { throw e; }
\* function f() { g(); }
\* f();
ThrowsNested(e) ==
    <<ISetLine(3), IEnter("f"), ISetLine(2), IEnter("g"), IThrow(e),
      IFinallyExit, IStep(2, Obj(Fn)), IFinallyExit, IStep(3, Obj(Fn))>>

\* function f() { while (true) { k traced statements } }
\* f();
EndlessCall(k) ==
    <<ISetLine(9), IEnter("f")>> \o WhileTrue(Body(k))
    \o <<IFinallyExit, IStep(9, Obj(Num(9)))>>

CallPrograms ==
    {NestedCalls, ReturnInLoop}
    \cup {ThrowsNested(e) : e \in ThrownValues}
    \cup {EndlessCall(k) : k \in 1..MaxBody}

\* the snapshots of j iterations of body, recorded inside f
StepsInCall(body, j) ==
    LET k == Len(body) \div 2
    IN  [i \in 1..(j * k) |->
            LET ins == body[2 * (((i - 1) % k) + 1)]
            IN  StepEntry(ins.n, ins.obj, <<"main", "f">>, <<>>)]

\* The state of the run of EndlessCall(k) at the head of the loop when the
\* loop has made j iterations.
MidCall(k, j) ==
    /\ language = "javascript"
    /\ userCode = Source(EndlessCall(k))
    /\ pc = "run"
    /\ timeline = StepsInCall(Body(k), j)
    /\ currentLogs = <<>>
    /\ lastLine = k + 1
    /\ stepCount = j * k
    /\ stack = <<"main", "f">>
    /\ currentLine = k + 1
    /\ inputIndex = 0
    /\ instrumented = EndlessCall(k)
    /\ ip = 3
    /\ iter = 0
    /\ tryDepth = 1
    /\ thrown = NoThrow
    /\ result = Pending
    /\ evaluated = TRUE
    /\ lineCalls = [setLine |-> k + 1, step |-> k + 1, latest |-> "step"]
    /\ env = EmptyEnv
    /\ inputValue = <<>>
    /\ earlier = <<>>
    /\ callers = <<<<"main">>>>
    /\ py = NoPy
    /\ app = NoApp
    /\ walk = NoWalk
    /\ scan = NoScan

\* the iterations made where InitCalls takes the run of EndlessCall(k) up
CallTakenUpAt(k) == (MAX_STEPS - Slack) \div k

\* The short programs from their start, and the endless calls taken up
\* before the budget is used up.
InitCalls ==
    \/ Init
    \/ InitWith({"javascript"}, {Source(p) : p \in {NestedCalls, ReturnInLoop}
                                       \cup {ThrowsNested(e) : e \in ThrownValues}})
    \/ \E k \in 1..MaxBody : MidCall(k, CallTakenUpAt(k))

CallsSpec == InitCalls /\ [][Next]_vars

\* The endless calls from their start; MidCallAsComputed: each passes the
\* head of its loop in exactly the state InitCalls takes it up in.
InitFullCalls == InitWith({"javascript"}, {Source(EndlessCall(k)) : k \in 1..MaxBody})

FullCallSpec == InitFullCalls /\ [][Next]_vars

AtMidCall(k) ==
    /\ pc = "run"
    /\ instrumented = EndlessCall(k)
    /\ ip = 3
    /\ stepCount = CallTakenUpAt(k) * k

MidCallAsComputed == \A k \in 1..MaxBody : AtMidCall(k) => MidCall(k, CallTakenUpAt(k))

MidCallNotReached == \A k \in 1..MaxBody : ~AtMidCall(k)

----------------------------------------------------------------------------
(* Properties *)

Done == pc = "done"
Failed == thrown # NoThrow
Returned == result.state = "resolved"
LastOf(tl) == tl[Len(tl)]
IsPrefix(a, b) == Len(a) <= Len(b) /\ SubSeq(b, 1, Len(a)) = a

\* a loop with no terminating condition: its back edge leads to the guard itself
HasEndlessLoop(p) ==
    \E i \in DOMAIN p : p[i].op = "jump" /\ p[i + p[i].n].op = "checkLoop"

\* C1: whatever the evaluated program throws (an Error, a string, null or
\* undefined), the promise of executeCode resolves with a Timeline and never
\* rejects; a failure shows only as the terminal step of that Timeline.
C1_AlwaysResolves ==
    Done =>
        /\ Returned
        /\ Failed => (Len(result.value) > 0 /\ LastOf(result.value).isError)

\* C2: a program that terminates normally, without error, returns a Timeline
\* that is non-empty, whose last step is no error step, and that holds at
\* most 2000 steps.
C2_NormalRunWithinBudget ==
    (Done /\ ~Failed /\ ~HasEndlessLoop(instrumented)) =>
        /\ Returned
        /\ Len(result.value) > 0
        /\ ~LastOf(result.value).isError
        /\ Len(result.value) <= MAX_STEPS

\* C3: a program with a loop that has no terminating condition returns a
\* Timeline whose last step is the error step of the step-budget guard, with
\* a step count at or just above 2000, whatever the number of traced
\* statements in the loop body and whether or not statements follow the loop.
C3_EndlessLoopReported ==
    (Done /\ HasEndlessLoop(instrumented)) =>
        /\ Returned
        /\ Len(result.value) >= MAX_STEPS
        /\ Len(result.value) <= MAX_STEPS + 2
        /\ LastOf(result.value).isError
        /\ LastOf(result.value).errorMessage = <<LimitMessage>>

\* C4: the run of while(true){} ends: executeCode returns a Timeline whose
\* terminal step is an error step and whose step count is bounded by the
\* budget.
C4_EmptyLoopTerminates ==
    (pc = "run" /\ instrumented = WhileTrue(<<>>))
        ~> (/\ Done
            /\ Returned
            /\ Len(result.value) > 0
            /\ Len(result.value) <= MAX_STEPS + 2
            /\ LastOf(result.value).isError)

\* C5: the call stack always holds at least the seed frame "main" at its
\* bottom; enter adds exactly one frame on top, exit (called by the program or
\* by a finally block) removes exactly the top frame unless only the seed
\* frame remains, and then leaves the stack as it is; so every step of the
\* Timeline has a call stack of length >= 1.
StackSeeded ==
    /\ Len(stack) >= 1
    /\ stack[1] = "main"
    /\ \A i \in DOMAIN timeline : Len(timeline[i].callStack) >= 1
    /\ \A i \in DOMAIN result.value : Len(result.value[i].callStack) >= 1

StackByOneFrame ==
    /\ At("enter") =>
           Len(stack') = Len(stack) + 1 /\ SubSeq(stack', 1, Len(stack)) = stack
    /\ (At("exit") \/ (pc = "throwing" /\ tryDepth > 0)) =>
           IF Len(stack) > 1
           THEN Len(stack') = Len(stack) - 1 /\ stack' = SubSeq(stack, 1, Len(stack) - 1)
           ELSE stack' = stack
    /\ ~(At("enter") \/ At("exit") \/ (pc = "throwing" /\ tryDepth > 0)) =>
           stack' = stack

C5_CallStack == []StackSeeded /\ [][StackByOneFrame]_vars

\* a snapshot taken inside f, and later an exit() called with only "main" left
C5_Witness ==
    /\ pc = "run"
    /\ ip > 1
    /\ instrumented[ip - 1] = IDirectExit
    /\ stack = <<"main">>
    /\ \E i \in DOMAIN timeline : timeline[i].callStack = <<"main", "f">>

\* C6: on any failure the returned Timeline is the steps recorded so far,
\* unchanged and in order, followed by exactly one error step, the only step
\* with isError; its errorMessage is the failure's message (asked here of the
\* failures that carry one, the Error objects) and its variables and
\* callStack are those of the last recorded step, or {} and ["main"].
C6_ErrorStepOnFailure ==
    (Done /\ Failed) =>
        /\ Returned
        /\ LET v == result.value
               n == Len(v)
           IN  /\ n = Len(timeline) + 1
               /\ SubSeq(v, 1, n - 1) = timeline
               /\ v[n].isError
               /\ \A i \in 1..(n - 1) : ~v[i].isError
               /\ thrown.kind = "Error" => v[n].errorMessage = <<thrown.message>>
               /\ v[n].variables = IF n > 1 THEN v[n - 1].variables ELSE EmptyObject
               /\ v[n].callStack = IF n > 1 THEN v[n - 1].callStack ELSE <<"main">>

\* C7: the line of the terminal error step.
ErrorStepReturned == Done /\ Failed /\ Returned

FrontEndThrew ==
    thrown = ErrorObject("Transpilation Failed: Maximum call stack size exceeded ")
ParserRejected == thrown = ErrorObject("Unexpected token (1:0)")

C8_FailureBeforeEvaluation ==
    (FrontEndThrew \/ ParserRejected) =>
        /\ ~evaluated
        /\ Done =>
              /\ Returned
              /\ Len(result.value) = 1
              /\ result.value[1].isError
              /\ result.value[1].line = 0
              /\ result.value[1].variables = EmptyObject
              /\ result.value[1].callStack = <<"main">>

\* a Python text the front-end translated and the parser then rejected
C8_Witness == Done /\ ParserRejected /\ language = "python"

\* C9: each print call appends exactly one ConsoleLog of the kind of the call:
\* console.log the kind the spec calls info (type 'log'), console.error the
\* kind error, console.warn the kind warn.
KindOfCall(method) ==
    CASE method = "error" -> "error"
      [] method = "warn" -> "warn"
      [] OTHER -> "log"

C9_KindMatchesCall ==
    [][At("console") =>
          /\ Len(currentLogs') = Len(currentLogs) + 1
          /\ SubSeq(currentLogs', 1, Len(currentLogs)) = currentLogs
          /\ currentLogs'[Len(currentLogs')].type = KindOfCall(Cur.s)]_vars

\* C10: in the Timeline being recorded and in the Timeline returned (its
\* terminal error step included), the console output of a step is a prefix of
\* the console output of every later step.
Monotonic(tl) ==
    \A i, j \in DOMAIN tl :
        i < j => IsPrefix(tl[i].consoleOutput, tl[j].consoleOutput)

C10_ConsoleMonotonic == Monotonic(timeline) /\ Monotonic(result.value)

\* a step that holds one entry and, after it, the error step that holds two
C10_Witness ==
    /\ Returned
    /\ Len(result.value) = 2
    /\ Len(result.value[1].consoleOutput) = 1
    /\ result.value[2].isError
    /\ Len(result.value[2].consoleOutput) = 2

\* C11: a step is fixed once appended: no later tracer operation (enter,
\* exit, log, input, a later step) and not the creation of the terminal error
\* step changes a step that is in the Timeline, the Timeline only grows by
\* appending one step at its end, and the Timeline returned holds the
\* recorded steps as they were recorded.
AppendOnly ==
    /\ Len(timeline') \in {Len(timeline), Len(timeline) + 1}
    /\ \A i \in DOMAIN timeline : timeline'[i] = timeline[i]
    /\ result'.state = "resolved" => IsPrefix(timeline, result'.value)

C11_StepsFixed == [][AppendOnly]_vars

\* a step recorded in main still shows ["main"] after enter("f") has pushed a
\* frame on the tracer's stack
C11_Witness ==
    /\ pc = "run"
    /\ stack = <<"main", "f">>
    /\ \E i \in DOMAIN timeline : timeline[i].callStack = <<"main">>

\* C12: the cursor of input() starts at 0 in every run; the k-th call returns
\* element (k-1) mod 10 of [5, 10, 3, 7, 1, 42, 100, 0, -1, 99], moves the
\* cursor to k, and appends exactly one console log entry, which carries the
\* value returned.
InputCall ==
    At("input") =>
        LET k == inputIndex + 1
            val == <<5, 10, 3, 7, 1, 42, 100, 0, -1, 99>>[((k - 1) % 10) + 1]
        IN  /\ inputValue' = <<val>>
            /\ inputIndex' = k
            /\ currentLogs' =
                   Append(currentLogs,
                          [type |-> "log",
                           message |-> "[input] -> " \o ToString(val) \o " "])

C12_InputSequence ==
    /\ [](pc \in {"transpile", "instrument", "evaluate"} => inputIndex = 0)
    /\ [][InputCall]_vars

\* the eleventh call has returned the first value again
C12_Witness == inputIndex = 11 /\ inputValue = <<5>>

\* C13: runs do not interfere: every call of executeCode starts with the call
\* stack ["main"], step counter 0, input cursor 0, last line 0, an empty log
\* and an empty Timeline, whatever the calls before it did; and a call made
\* after other calls returns what a call with the same code and language
\* returned when it was the first one.
FreshStart ==
    pc = "transpile" =>
        /\ stack = <<"main">>
        /\ stepCount = 0
        /\ inputIndex = 0
        /\ lastLine = 0
        /\ currentLogs = <<>>
        /\ timeline = <<>>

SameAsAlone ==
    (Done /\ Len(earlier) > 0) =>
        \A i \in DOMAIN earlier :
            (earlier[i].language = language /\ earlier[i].userCode = userCode)
                => earlier[i].result = result

RanScenarioB == Done /\ language = "javascript" /\ instrumented = ScenarioB

C14_FunctionCall ==
    RanScenarioB =>
        /\ Returned
        /\ \E i, j \in DOMAIN result.value :
               /\ i < j
               /\ \E k \in DOMAIN result.value[i].callStack :
                      result.value[i].callStack[k] = "f"
               /\ "y" \in DOMAIN result.value[j].variables
               /\ result.value[j].variables["y"] = Num(10)
               /\ result.value[j].callStack = <<"main">>

C14_Witness == RanScenarioB /\ Len(result.value) = 2

\* C16: for the source let x = 1; x = x + 1; console.log(x); in the native
\* syntax the Timeline has exactly 3 steps, the third step has variables.x =
\* 2, the final console output is ["2"], and no step is an error step.
RanScenarioA == Done /\ language = "javascript" /\ instrumented = ScenarioA

Messages(logs) == [i \in DOMAIN logs |-> logs[i].message]

C16_ThreeSteps ==
    RanScenarioA =>
        /\ Returned
        /\ Len(result.value) = 3
        /\ result.value[3].variables["x"] = Num(2)
        /\ Messages(result.value[3].consoleOutput) = <<"2">>
        /\ \A i \in DOMAIN result.value : ~result.value[i].isError

C16_Witness == RanScenarioA /\ Len(currentLogs) = 1

\* C17: instrumentation only inserts text: with every inserted patch text
\* removed, the instrumented output is the text instrumentCode was given, the
\* tokens of that text in their order; no inserted text holds a line break, so
\* every token of the given text stays on its line.
Applied == walk.phase \in {"applying", "returned"}

\* the output without the text this call of instrumentCode inserted
WithoutPatches(out, pass) == SelectSeq(out, LAMBDA t : t.by < pass)

\* how many tokens of the given text lie in the first p tokens of the output
GivenUpTo(out, pass, p) == Cardinality({q \in 1..p : out[q].by < pass})

C17_OnlyInserts ==
    Applied =>
        /\ WithoutPatches(walk.out, walk.pass) = walk.code
        /\ \A p \in DOMAIN walk.out :
               IF walk.out[p].by = walk.pass
               THEN walk.out[p].kind # "nl"
               ELSE LineAt(walk.out, p - 1)
                        = LineAt(walk.code, GivenUpTo(walk.out, walk.pass, p) - 1)

\* the four-line function has been instrumented: its last line, the closing
\* brace, follows inserted text and is still line 5
C17_Witness ==
    /\ walk.phase = "returned"
    /\ walk.pass = 1
    /\ walk.source = TextIfReturn
    /\ Len(walk.out) > Len(walk.code)
    /\ walk.out[Len(walk.out)] = RBrace
    /\ walk.out[Len(walk.out) - 1].by = 1
    /\ LineAt(walk.out, Len(walk.out) - 1) = 5

\* C20: instrumentation does not alter the control flow around a return: a
\* function that holds  if (c) return e;  with an unbraced return runs, once
\* instrumented, the statements it ran before: it returns at that statement
\* exactly when c holds and runs the statements after the if when c is false.
IsIfReturn(node) ==
    /\ node.type = "IfStatement"
    /\ Kid(node, "consequent").type = "ReturnStatement"
    /\ Kid(Kid(node, "consequent"), "argument") # <<>>

\* the functions whose body holds  if (c) return e;
WithIfReturn(ast) ==
    {f \in Functions(ast) :
        \E k \in DOMAIN Kid(f, "body").kids : IsIfReturn(Kid(f, "body").kids[k][2])}

C20_ReturnKeepsControlFlow ==
    walk.phase = "returned" =>
        \A f \in WithIfReturn(ParseProgram(walk.code).node) :
            \A g \in Functions(ParseProgram(walk.out).node) :
                g.name = f.name =>
                    \A c \in BOOLEAN :
                        CallOf(g, walk.out, walk.pass, c)
                            = CallOf(f, walk.code, walk.pass, c)

\* C18: the C++ front-end returns text only when it has found the closing
\* brace of every function it met: for a function whose opening brace has no
\* matching closing brace it fails instead of returning text.
C18_UnmatchedBraceFails == scan.phase = "returned" => scan.missed = 0

\* C19: instrumenting instrumented text again does not change which lines
\* the run reaches: every line that has a snapshot in the Timeline of the text
\* instrumented once has a snapshot in the Timeline of the text instrumented
\* twice.
Lines(tl) == {tl[i].line : i \in DOMAIN tl}

RanTwice == Done /\ Len(earlier) = 1 /\ earlier[1].result.state = "resolved"

C19_SecondPassKeepsLines ==
    RanTwice => (Returned /\ Lines(earlier[1].result.value) \subseteq Lines(result.value))

\* C15: the Python source  for i in range(3): print(i)  yields the console
\* output "0", "1", "2" in this order, and three distinct steps record the
\* loop variable i as 0, 1 and 2.  (The source is taken as written, on one
\* line, and with the body on a line of its own.)
RanRange3 ==
    /\ Done
    /\ language \in {"python", "py"}
    /\ userCode \in {PySource(PyOneLine), PySource(PyTwoLines)}

Records(st, name, v) == name \in DOMAIN st.variables /\ st.variables[name] = v

C15_RangeLoop ==
    RanRange3 =>
        /\ Returned
        /\ Messages(result.value[Len(result.value)].consoleOutput) = <<"0", "1", "2">>
        /\ \E a, b, c \in DOMAIN result.value :
               /\ a < b /\ b < c
               /\ Records(result.value[a], "i", Num(0))
               /\ Records(result.value[b], "i", Num(1))
               /\ Records(result.value[c], "i", Num(2))

\* the nodes of a syntax tree
RECURSIVE Nodes(_)
Nodes(node) == {node} \cup UNION {Nodes(node.kids[k][2]) : k \in DOMAIN node.kids}

\* where the k-th token of the text given stands in the output
PlaceOf(out, pass, k) ==
    IF k = 0 THEN 0
    ELSE CHOOSE p \in 1..Len(out) : out[p].by < pass /\ GivenUpTo(out, pass, p) = k

\* the node of the output that starts with the first token of node n of the
\* text given
SameNode(m, n, out, pass) == m.type = n.type /\ m.start + 1 = PlaceOf(out, pass, n.start + 1)

\* token q of the output is a call of the tracer method that the pass wrote
TracerCallAt(out, pass, q, method) == out[q].by = pass /\ out[q].text = method

BareLoops(ast) ==
    {n \in Nodes(ast) : /\ n.type \in {"ForStatement", "WhileStatement", "DoWhileStatement"}
                         /\ Kid(n, "body").type # "BlockStatement"}

GuardedBlock(loop, out, pass) ==
    LET first == Kid(loop, "body").start + 1
        at == PlaceOf(out, pass, first)
        parsed == ParseProgram(out)
    IN  IF ~parsed.ok THEN FALSE
        ELSE \E m \in Nodes(parsed.node) :
                 /\ SameNode(m, loop, out, pass)
                 /\ LET block == Kid(m, "body")
                    IN  /\ block.type = "BlockStatement"
                        /\ block.start = PlaceOf(out, pass, first - 1)
                        /\ SubSeq(out, block.start + 2, block.start + 1 + Len(GuardText))
                               = Inserted(GuardText, pass)
                        /\ block.start < at /\ at <= block.end
                        /\ \E q \in (at + 1)..block.end :
                               TracerCallAt(out, pass, q, "__tracer.step")

\* C21: for every for, while or do-while loop whose body is one unbraced
\* statement, the body of the instrumented loop is one synthesized block
\* holding the guard  if (__tracer.checkLoop()) break;  the statement and
\* its trace calls, in this order; nothing inserted stands between the loop
\* header and the block, so the break of the guard is inside the loop.
C21_UnbracedLoopBody ==
    walk.phase = "returned" =>
        \A loop \in BareLoops(ParseProgram(walk.code).node) :
            GuardedBlock(loop, walk.out, walk.pass)

\* the unbraced statements under an if/else branch or a loop header:
\* <<header, key, statement>>
BareBodies(ast) ==
    UNION {{<<n, n.kids[k][1], n.kids[k][2]>> : k \in DOMAIN n.kids} :
              n \in {h \in Nodes(ast) :
                        h.type \in {"IfStatement", "ForStatement", "WhileStatement",
                                    "DoWhileStatement", "ForInStatement",
                                    "ForOfStatement"}}}

StatementBodies(ast) ==
    {b \in BareBodies(ast) :
        /\ b[2] \in {"consequent", "alternate", "body"}
        /\ b[3].type \in {"ExpressionStatement", "VariableDeclaration"}}

EnclosedTogether(header, key, statement, out, pass) ==
    LET at == PlaceOf(out, pass, statement.start + 1)
        parsed == ParseProgram(out)
    IN  IF ~parsed.ok THEN FALSE
        ELSE \E m \in Nodes(parsed.node) :
                 /\ SameNode(m, header, out, pass)
                 /\ LET block == Kid(m, key)
                    IN  /\ block # <<>>
                        /\ block.type = "BlockStatement"
                        /\ block.start < at /\ at <= block.end
                        /\ \E q \in (block.start + 1)..(at - 1) :
                               TracerCallAt(out, pass, q, "__tracer.setLine")
                        /\ \E q \in (at + 1)..block.end :
                               TracerCallAt(out, pass, q, "__tracer.step")

\* C22: an expression statement or variable declaration that is the
\* unbraced body of an if/else branch or of a loop header (for, while,
\* do-while, for-in, for-of) is enclosed, with its setLine call and its step
\* call, in one synthetic block that is the single body of that header.
C22_UnbracedStatementBody ==
    walk.phase = "returned" =>
        \A b \in StatementBodies(ParseProgram(walk.code).node) :
            EnclosedTogether(b[1], b[2], b[3], walk.out, walk.pass)

\* after is before sorted by non-increasing index, the patches of one index
\* in the order they have in before
SortedStably(before, after) ==
    /\ Len(after) = Len(before)
    /\ \A i \in 1..(Len(after) - 1) : after[i].index >= after[i + 1].index
    /\ \A v \in {before[i].index : i \in DOMAIN before} :
           SelectSeq(after, LAMBDA p : p.index = v)
               = SelectSeq(before, LAMBDA p : p.index = v)

SortStep ==
    (walk.phase = "walking" /\ walk'.phase = "applying")
        => SortedStably(walk.patches, walk'.patches)

\* the text of patch p stands in out with exactly p.index tokens of the text
\* given before it
InPlace(out, pass, p) ==
    \E q \in 0..(Len(out) - Len(p.text)) :
        /\ SubSeq(out, q + 1, q + Len(p.text)) = Inserted(p.text, pass)
        /\ GivenUpTo(out, pass, q) = p.index

AllInPlace ==
    walk.phase = "returned" =>
        \A k \in DOMAIN walk.patches : InPlace(walk.out, walk.pass, walk.patches[k])

\* C23: the patches are applied sorted by non-increasing offset, patches of
\* one offset in the order of their registration, and once all are spliced
\* every patch text stands at its recorded offset of the original text: the
\* original tokens before the offset precede it, those from the offset on
\* follow it.
C23_PatchOrder == []AllInPlace /\ [][SortStep]_vars

\* return;  in an if gets three patches at one offset, and all are spliced
C23_Witness ==
    /\ walk.phase = "returned"
    /\ walk.source = TextIfBareReturn
    /\ walk.pass = 1
    /\ \E i \in 1..(Len(walk.patches) - 2) :
           /\ walk.patches[i].index = walk.patches[i + 1].index
           /\ walk.patches[i].index = walk.patches[i + 2].index
           /\ walk.patches[i].text # walk.patches[i + 1].text

\* a call of an instrumented function finishes: its finally block runs
\* __tracer.exit(), after the body has ended or returned, or while an
\* exception leaves the function
CallFinishes == (At("exit") /\ Cur.n = 1) \/ (pc = "throwing" /\ tryDepth > 0)

OpenCalls == Len(callers) = tryDepth

StackRestored == CallFinishes => stack' = callers[Len(callers)]

\* C24: for every call of an instrumented function with a block body, on
\* every exit path (normal return, return from inside a loop, an exception
\* leaving the function, the error of the step budget among them), the call
\* stack of the tracer after the call has finished is the call stack from
\* immediately before the call.
C24_StackRestored == []OpenCalls /\ [][StackRestored]_vars

\* the budget error has left f, and the stack is the one from before the call
C24_Witness ==
    /\ pc = "throwing"
    /\ thrown = ErrorObject(LimitMessage)
    /\ \E k \in 1..MaxBody : instrumented = EndlessCall(k)
    /\ tryDepth = 0
    /\ stack = <<"main">>
    /\ LastOf(timeline).callStack = <<"main", "f">>

\* checkLoop() leaves the state of the tracer alone, and the guard breaks
\* the loop (checkLoop returned true) exactly when the counter is past the
\* budget
CheckLoopCalled ==
    At("checkLoop") =>
        /\ UNCHANGED <<stepCount, stack, currentLine, inputIndex, currentLogs, timeline,
                       lastLine>>
        /\ (ip' = ip + Cur.n) <=> (stepCount > MAX_STEPS)

\* step() fails with the error of the execution limit exactly when the
\* counter is past the budget
StepCalled ==
    At("step") =>
        ((pc' = "throwing" /\ thrown' = ErrorObject(LimitMessage))
            <=> (stepCount > MAX_STEPS))

\* C25: checkLoop() changes no state of the tracer (step counter, call
\* stack, log, Timeline) and returns true exactly in the states where the
\* step counter has exceeded the budget of 2000, which are exactly the
\* states in which the next call of step() fails with the error of the
\* execution limit.
C25_CheckLoopPure == [][CheckLoopCalled /\ StepCalled]_vars

\* a guard has broken its loop, nothing was thrown, and nothing was recorded
\* past the budget
C25_Witness ==
    /\ pc = "run"
    /\ thrown = NoThrow
    /\ stepCount = MAX_STEPS + 1
    /\ Len(timeline) = MAX_STEPS + 1
    /\ \E i \in DOMAIN instrumented :
           /\ instrumented[i].op = "checkLoop"
           /\ ip = i + instrumented[i].n
           /\ instrumented[ip - 1].op = "jump"

\* The closing brace that balances the brace at index open, as the language
\* reads the text: in a string or character literal a backslash takes the
\* next character with it and the literal ends at the next quote of its
\* kind; a // comment ends at the line break and a /* comment at */; braces
\* count in code only.  mode: "code", "string", "char", "line" or "block".
RECURSIVE Balanced(_, _, _, _)
Balanced(code, i, depth, mode) ==
    LET ch == CharAt(code, i)
        next == CharAt(code, i + 1)
    IN  IF i >= Len(code) THEN -1
        ELSE IF mode = "string"
        THEN IF ch = "\\" THEN Balanced(code, i + 2, depth, mode)
             ELSE Balanced(code, i + 1, depth, IF ch = "\"" THEN "code" ELSE mode)
        ELSE IF mode = "char"
        THEN IF ch = "\\" THEN Balanced(code, i + 2, depth, mode)
             ELSE Balanced(code, i + 1, depth, IF ch = "'" THEN "code" ELSE mode)
        ELSE IF mode = "line"
        THEN Balanced(code, i + 1, depth, IF ch = "\n" THEN "code" ELSE mode)
        ELSE IF mode = "block"
        THEN IF ch = "*" /\ next = "/" THEN Balanced(code, i + 2, depth, "code")
             ELSE Balanced(code, i + 1, depth, mode)
        ELSE IF ch = "\"" THEN Balanced(code, i + 1, depth, "string")
        ELSE IF ch = "'" THEN Balanced(code, i + 1, depth, "char")
        ELSE IF ch = "/" /\ next = "/" THEN Balanced(code, i + 2, depth, "line")
        ELSE IF ch = "/" /\ next = "*" THEN Balanced(code, i + 2, depth, "block")
        ELSE IF ch = "{" THEN Balanced(code, i + 1, depth + 1, mode)
        ELSE IF ch = "}"
        THEN IF depth = 1 THEN i ELSE Balanced(code, i + 1, depth - 1, mode)
        ELSE Balanced(code, i + 1, depth, mode)

\* C26: findMatchingBrace(code, i), for an opening brace at index i, returns
\* the index of the closing brace that balances it, counting only the braces
\* outside string literals, character literals, // comments and /* */
\* comments, for every text (a quote inside a comment and an escaped
\* backslash just before a closing quote among them), and -1 when no
\* balancing brace exists.
C26_MatchingBrace ==
    (scan.phase = "brace" /\ scan.loop.returned)
        => scan.loop.at = Balanced(scan.code, scan.match + 1, 0, "code")

\* C27: when the source holds  #define NAME VALUE , the text transpileCppToJs
\* returns holds the constant declaration made of it, also when the source
\* defines main or helper functions.
C27_DefineKept ==
    (scan.phase = "returned" /\ \E i \in 1..Len(scan.cppCode) : scan.cppCode[i] = Directive)
        => \E i \in 1..Len(scan.js) : scan.js[i] = Declaration

\* a source without a function: the declaration is in the text returned
DefineKeptBare ==
    (scan.phase = "returned" /\ scan.cppCode = <<Directive, "\n", "a">>)
        => \E i \in 1..Len(scan.js) : scan.js[i] = Declaration

\* the source with the directive before main has been transpiled
DefineReturned == scan.phase = "returned" /\ scan.cppCode = <<Directive, "\n", "int main()", "{", "a", "}">>

\* the braces of one kind in the lines of a text
RECURSIVE Braces(_, _)
Braces(lines, kind) ==
    IF lines = <<>> THEN 0
    ELSE Len(SelectSeq(lines[1].toks, LAMBDA tok : tok.kind = kind))
         + Braces(Tail(lines), kind)

\* C28: for every text, phase 1 of transpilePythonToJs has added as many
\* opening braces as closing braces when its loops are done, and its
\* indentStack is back to the one base level 0.
C28_BracesBalanced ==
    py.phase = "phase2"
        => /\ Braces(py.processedLines, "{") - Braces(py.pythonCode, "{")
              = Braces(py.processedLines, "}") - Braces(py.pythonCode, "}")
           /\ py.indentStack = <<0>>

\* the stack is back to the base level when phase 1 is done
StackAtBase == py.phase = "phase2" => py.indentStack = <<0>>

\* phase 1 is balanced on the texts whose first code line is not indented
\* and in which no line before an indented one ends with a brace
BalancedOnBlocks ==
    (/\ py.phase = "phase2"
     /\ \A i \in 1..Len(py.pythonCode) :
            /\ py.pythonCode[i].toks # <<>> => py.pythonCode[i].toks[Len(py.pythonCode[i].toks)].kind # "{"
            /\ (~Skipped(py.pythonCode[i]) /\ py.pythonCode[i].indent > 0)
                   => \E j \in 1..(i - 1) : ~Skipped(py.pythonCode[j]))
        => Braces(py.processedLines, "{") - Braces(py.pythonCode, "{")
           = Braces(py.processedLines, "}") - Braces(py.pythonCode, "}")

\* for (let name = from; name < to; update) and the blank after it
Counted(name, from, to, update) ==
    <<ForOpen, Decl("let " \o name \o " = " \o from, {name}), Semi, Sp,
      Expr(name \o " < " \o to), Semi, Sp, Expr(update), ForClose, Sp>>

\* the counted loop of range(args): from 0 or the first argument, up to the
\* only or the second argument, by 1 or by the third argument
CountedRange(args) ==
    Counted("x",
            IF Len(args) = 1 THEN "0" ELSE args[1],
            IF Len(args) = 1 THEN args[1] ELSE args[2],
            IF Len(args) = 3 THEN "x += " \o args[3] ELSE "x++")

\* the text with range(args) has been translated to a text that starts with
\* the counted loop of range(args)
RangeTranslated(args) ==
    (py.phase = "returned" /\ py.pythonCode = PyRange(args))
        => /\ Len(py.js) >= Len(CountedRange(args))
           /\ SubSeq(py.js, 1, Len(CountedRange(args))) = CountedRange(args)

\* C29: the block headers  for x in range(n): ,  for x in range(a, b):  and
\* for x in range(a, b, s):  are each translated to the counted loop that
\* starts at 0, a and a, runs while x < n, x < b and x < b, and advances x by
\* 1, 1 and s.
C29_RangeArities ==
    /\ RangeTranslated(<<"n">>)
    /\ RangeTranslated(<<"a", "b">>)
    /\ RangeTranslated(<<"a", "b", "s">>)

\* the headers of one and of two arguments are translated as stated
RangeOneTwo == RangeTranslated(<<"n">>) /\ RangeTranslated(<<"a", "b">>)

\* a handleRun call has run to its end and none waits
RunCompleted == app.page # "none" /\ app.ran /\ ~app.awaiting

====
